---- MODULE Spec2Model ----
(***************************************************************************)
(* PDFtoTXT: the page text extraction command (src/pdf_page_text.py) and   *)
(* the page rasterization / image-PDF assembly command                     *)
(* (src/pdf_to_image.py), as one sequential state machine.                 *)
(*                                                                         *)
(* One run of the model is one process: the module is imported, then one   *)
(* entry point runs to its end (the command's main(), or a direct call of  *)
(* a public function, as a library user makes).  External libraries       *)
(* (pypdf, pdfminer.six, PyMuPDF, pytesseract, Pillow, the file system)    *)
(* are the environment: what they return or raise is chosen with \E.       *)
(***************************************************************************)
EXTENDS Integers, Sequences, FiniteSets, TLC

\* ------------------------------------------------------------------ bounds
MaxPages == 2      \* documents have 1..MaxPages pages
MaxLen == 2        \* texts have at most MaxLen code points
MaxImages == 2     \* image lists handed directly to images_to_pdf

\* ----------------------------------------------------------------- texts
\* Code points: a base letter, the combining acute accent (U+0301), the
\* precomposed letter (U+00E9) and a white-space character.
Chars == {"e", "acute", "eacute", "sp"}

Texts == UNION {[1..n -> Chars] : n \in 0..MaxLen}

\* unicodedata.normalize('NFC', text): canonical composition.
RECURSIVE NFC(_)
NFC(s) ==
  IF Len(s) < 2 THEN s
  ELSE IF s[1] = "e" /\ s[2] = "acute"
       THEN <<"eacute">> \o NFC(SubSeq(s, 3, Len(s)))
       ELSE <<s[1]>> \o NFC(Tail(s))

\* `not text or not text.strip()`: empty or white space only.
IsBlank(t) == \A i \in 1..Len(t) : t[i] = "sp"

\* Mutant of Finalize: the text is returned as the backend gave it.
Finalize_NotNormalized(t) == IF IsBlank(t) THEN <<>> ELSE t

\* The tail of every backend: a blank result is returned as "", anything
\* else NFC-normalized.
Finalize(t) == IF IsBlank(t) THEN <<>> ELSE NFC(t)

\* ------------------------------------------------------------ arguments
EngineChoices == {"pypdf", "pdfminer", "ocr"}
EngineArgs == EngineChoices \cup {"bogus"}
PageArgs == (-1)..(MaxPages + 1)
PathStates == {"missing", "dir", "file.pdf", "file.other"}

\* --------------------------------------------------- exceptions and logs
Exc(t, m, p, n) == [type |-> t, msg |-> m, page |-> p, total |-> n]
NoExc == Exc("none", "", 0, 0)
KeyboardInterrupt == Exc("KeyboardInterrupt", "", 0, 0)
SystemExit(code) == Exc("SystemExit", "", code, 0)

Entry(lv, m, p, n, d) ==
  [level |-> lv, msg |-> m, page |-> p, total |-> n, deps |-> d]
Info(m) == Entry("INFO", m, 0, 0, <<>>)
Warn(m) == Entry("WARNING", m, 0, 0, <<>>)
Err(m) == Entry("ERROR", m, 0, 0, <<>>)
\* logging.error(str(e))
ErrOf(e) == Entry("ERROR", e.msg, e.page, e.total, <<>>)

\* Errors of the environment: opening a file, decoding, rendering, OCR.
OpenErrors == {Exc("PermissionError", "os", 0, 0), Exc("Exception", "decode", 0, 0)}
ProcessErrors == {Exc("Exception", "process", 0, 0)}

NoPdf == [exists |-> FALSE, pages |-> <<>>]
\* An assembled PDF left at the output path by an earlier run.
OldPdf == [exists |-> TRUE, pages |-> <<[src |-> 0, mode |-> "RGB"]>>]
\* No call of the function that is called twice has ended yet.
NoCall ==
  [done |-> FALSE, engine |-> "", raised |-> NoExc, retval |-> <<>>, returns |-> <<>>,
   files |-> {}]
\* The page has not been through OCR yet.
NotRead == <<"?">>
NoFile == [exists |-> FALSE, content |-> <<>>, writes |-> 0]
OldFile == [exists |-> TRUE, content |-> <<"e">>, writes |-> 0]

VARIABLES
  pc,                    \* control location
  prog,                  \* entry point that is running
  PDFMINER_AVAILABLE,    \* module flags set by the imports
  PYMUPDF_AVAILABLE,
  PYTESSERACT_AVAILABLE,
  pathState,             \* what the --pdf path names on disk
  docPages,              \* page count of the document on disk
  engine,                \* argument: engine name
  page_number,           \* argument: 1-based page number
  text,                  \* extract_page_text's local `text`
  total_pages,           \* local `total_pages` of the function that opened the document
  ocrFrom,               \* why extract_page_text_ocr runs: "", "engine" or "fallback"
  exitCode,              \* process exit status, -1 while running
  raised,                \* the exception that ended the entry point
  retval,                \* value returned by a directly called function
  outFile,               \* <base>-<page>.txt in the working directory
  openDocs,              \* PyMuPDF documents open now
  opens,                 \* documents opened so far (any library)
  calls,                 \* backends invoked, in order
  returns,               \* values the backends returned, in order
  log                    \* diagnostics emitted, in order

exvars == <<pc, prog, PDFMINER_AVAILABLE, PYMUPDF_AVAILABLE, PYTESSERACT_AVAILABLE,
            pathState, docPages, engine, page_number, text, total_pages, ocrFrom,
            exitCode, raised, retval, outFile, openDocs, opens, calls, returns, log>>

\* State of pdf_to_image.py.
VARIABLES
  image_format,          \* argument: image format
  dpi,                   \* argument: resolution
  page_range,            \* argument: <<>> (None) or <<start, end>>
  create_pdf,            \* argument: --create-pdf
  output_pdf,            \* argument: --output-pdf given
  dirCreated,            \* the output directory exists
  start_page,            \* convert_pdf_to_images: 0-based first page
  end_page,              \* convert_pdf_to_images: 0-based end (exclusive)
  page_num,              \* convert_pdf_to_images: loop variable
  image_paths,           \* list of image paths (returned / handed to images_to_pdf)
  imageFiles,            \* image files on disk
  imgObjs,               \* Pillow image objects created, in order
  first_image,           \* images_to_pdf: index of first_image in imgObjs, 0 if unset
  images,                \* images_to_pdf: the list `images`, as indices in imgObjs
  img_k,                 \* images_to_pdf: position of the loop over image_paths[1:]
  pdfOut                 \* the assembled PDF on disk

rvars == <<image_format, dpi, page_range, create_pdf, output_pdf, dirCreated, start_page,
           end_page, page_num, image_paths, imageFiles, imgObjs, first_image, images,
           img_k, pdfOut>>

\* What outlives one call or one process when several are made in a row.
VARIABLES
  first,                 \* outcome of the first of two calls of the same function
  pageImage,             \* the text OCR recognizes on the requested page, once read
  imageOnly,             \* the document at the --pdf path is known to hold images only
  target,                \* the document a second command is run on, "" before
  interruptedAt          \* where the extraction was when the user interrupted it, "" if never

session == <<first, pageImage, imageOnly, target, interruptedAt>>
vars == <<exvars, rvars, session>>

\* ------------------------------------------------ exception propagation
\* Mutant of ExitStatus: the KeyboardInterrupt clause is missing, so the
\* interrupt falls to the last clause.
ExitStatus_NoInterruptClause(e) ==
  CASE e.type = "SystemExit" -> e.page
    [] OTHER -> 1

\* main()'s except clauses, in order (pdf_page_text.py 482-504).  SystemExit
\* (raised by argparse) derives from BaseException: no clause catches it and
\* the interpreter exits with its code.
ExitStatus(e) ==
  CASE e.type = "FileNotFoundError" -> 1
    [] e.type = "ValueError" -> 1
    [] e.type = "PermissionError" -> 1
    [] e.type = "ImportError" -> 1
    [] e.type = "KeyboardInterrupt" -> 130
    [] e.type = "SystemExit" -> e.page
    [] OTHER -> 1

HandlerLog(e) ==
  CASE e.type \in {"FileNotFoundError", "ValueError", "ImportError"} -> <<ErrOf(e)>>
    [] e.type = "PermissionError" -> <<Err("permission_denied")>>
    [] e.type = "KeyboardInterrupt" -> <<Err("interrupted")>>
    [] e.type = "SystemExit" -> <<>>
    [] OTHER -> <<Err("unexpected_error")>>

\* An exception reaches main()'s try block: the process ends.
MainExcept(e, lg) ==
  /\ pc' = "exited"
  /\ exitCode' = ExitStatus(e)
  /\ raised' = e
  /\ log' = lg \o HandlerLog(e)

\* pdf_to_image.py main()'s except clauses (347-365): no ImportError clause.
RasterHandlerLog(e) ==
  CASE e.type \in {"FileNotFoundError", "ValueError"} -> <<ErrOf(e)>>
    [] e.type = "PermissionError" -> <<Err("permission_denied")>>
    [] e.type = "KeyboardInterrupt" -> <<Err("interrupted")>>
    [] e.type = "SystemExit" -> <<>>
    [] OTHER -> <<Err("unexpected_error")>>

RasterMainExcept(e, lg) ==
  /\ pc' = "exited"
  /\ exitCode' = ExitStatus(e)
  /\ raised' = e
  /\ log' = lg \o RasterHandlerLog(e)

\* An exception leaves the entry point: caught by main(), or handed to the
\* caller of a directly called function.
Propagate(e, lg) ==
  IF prog = "main"
  THEN MainExcept(e, lg)
  ELSE IF prog = "raster_main"
  THEN RasterMainExcept(e, lg)
  ELSE /\ pc' = "returned"
       /\ raised' = e
       /\ log' = lg
       /\ exitCode' = exitCode

\* Mutant of LeaveOcr: the fallback has no try/except around the OCR call.
LeaveOcr_Uncaught(e, lg) ==
  /\ Propagate(e, lg)
  /\ text' = text

\* Mutant of LeaveOcr: the fallback catches BaseException, interrupts too.
LeaveOcr_CatchesInterrupt(e, lg) ==
  IF ocrFrom = "fallback"
  THEN /\ pc' = "ept_return"
       /\ text' = <<>>
       /\ log' = Append(lg, Warn("ocr_failed"))
       /\ UNCHANGED <<exitCode, raised>>
  ELSE /\ Propagate(e, lg)
       /\ text' = text

\* Mutant of LeaveOcr: the degrade-to-empty policy also applies when the
\* engine is ocr.
LeaveOcr_AlwaysDegrades(e, lg) ==
  IF e.type # "KeyboardInterrupt"
  THEN /\ pc' = "ept_return"
       /\ text' = <<>>
       /\ log' = Append(lg, Warn("ocr_failed"))
       /\ UNCHANGED <<exitCode, raised>>
  ELSE /\ Propagate(e, lg)
       /\ text' = text

\* An exception leaves extract_page_text_ocr.  Called from the fallback
\* (320), `except Exception` (325-328) catches it, warns and sets text = "";
\* KeyboardInterrupt is no Exception and passes through.
LeaveOcr(e, lg) ==
  IF ocrFrom = "fallback" /\ e.type # "KeyboardInterrupt"
  THEN /\ pc' = "ept_return"
       /\ text' = <<>>
       /\ log' = Append(lg, Warn("ocr_failed"))
       /\ UNCHANGED <<exitCode, raised>>
  ELSE /\ Propagate(e, lg)
       /\ text' = text

\* except Exception in the three backends (130-134, 190-194, 275-279):
\* ValueError and ImportError are re-raised silently, others are logged.
BackendExceptLog(e, m) ==
  IF e.type \in {"ValueError", "ImportError", "KeyboardInterrupt"}
  THEN log ELSE Append(log, Err(m))

\* ---------------------------------------------------------------- Init
\* The working directory is empty, or it holds the outputs of an earlier run
\* (a text file and an assembled PDF at the paths this run will write).
Init ==
  /\ pc = "start"
  /\ prog = ""
  /\ PDFMINER_AVAILABLE = FALSE
  /\ PYMUPDF_AVAILABLE = FALSE
  /\ PYTESSERACT_AVAILABLE = FALSE
  /\ pathState \in PathStates
  /\ docPages \in 1..MaxPages
  /\ engine = ""
  /\ page_number = 0
  /\ text = <<>>
  /\ total_pages = 0
  /\ ocrFrom = ""
  /\ exitCode = -1
  /\ raised = NoExc
  /\ retval = <<>>
  /\ outFile \in {NoFile, OldFile}
  /\ openDocs = 0
  /\ opens = 0
  /\ calls = <<>>
  /\ returns = <<>>
  /\ log = <<>>
  /\ image_format = ""
  /\ dpi = 0
  /\ page_range = <<>>
  /\ create_pdf = FALSE
  /\ output_pdf = FALSE
  /\ dirCreated = FALSE
  /\ start_page = 0
  /\ end_page = 0
  /\ page_num = 0
  /\ image_paths = <<>>
  /\ imageFiles = {}
  /\ imgObjs = <<>>
  /\ first_image = 0
  /\ images = <<>>
  /\ img_k = 0
  /\ pdfOut = IF outFile = NoFile THEN NoPdf ELSE OldPdf
  /\ first = NoCall
  /\ pageImage = NotRead
  /\ imageOnly = FALSE
  /\ target = ""
  /\ interruptedAt = ""

\* ----------------------------------------- pdf_page_text.py: the module
\* Module import (16-43): pypdf is required, the others set a flag each.
ImportPdfPageText ==
  /\ pc = "start"
  /\ \E pypdf \in BOOLEAN, miner \in BOOLEAN, mupdf \in BOOLEAN, tess \in BOOLEAN :
       IF ~pypdf
       THEN /\ pc' = "exited"
            /\ exitCode' = 1
            /\ raised' = SystemExit(1)
            /\ prog' = "import"
            /\ UNCHANGED <<PDFMINER_AVAILABLE, PYMUPDF_AVAILABLE, PYTESSERACT_AVAILABLE>>
       ELSE /\ pc' = "loaded"
            /\ PDFMINER_AVAILABLE' = miner
            /\ PYMUPDF_AVAILABLE' = mupdf
            /\ PYTESSERACT_AVAILABLE' = tess
            /\ UNCHANGED <<exitCode, raised, prog>>
  /\ UNCHANGED <<pathState, docPages, engine, page_number, text, total_pages, ocrFrom,
                 retval, outFile, openDocs, opens, calls, log>>
  /\ UNCHANGED returns
  /\ UNCHANGED rvars
  /\ UNCHANGED session

\* main() up to parse_arguments (438-449, 385-428).  argparse ends the
\* process itself: status 0 after printing the help, status 2 on a usage
\* error, which an engine outside `choices` (422) is.
ParseArguments ==
  /\ pc = "loaded"
  /\ prog' = "main"
  /\ \E cmd \in {"help", "malformed", "ok"}, eng \in EngineArgs, p \in PageArgs :
       IF cmd = "help"
       THEN /\ MainExcept(SystemExit(0), log)
            /\ UNCHANGED <<engine, page_number>>
       ELSE IF cmd = "malformed" \/ eng \notin EngineChoices
       THEN /\ MainExcept(SystemExit(2), log)
            /\ UNCHANGED <<engine, page_number>>
       ELSE /\ pc' = "check_engine"
            /\ engine' = eng
            /\ page_number' = p
            /\ log' = Append(log, Info("start"))
            /\ UNCHANGED <<exitCode, raised>>
  /\ UNCHANGED <<PDFMINER_AVAILABLE, PYMUPDF_AVAILABLE, PYTESSERACT_AVAILABLE, pathState,
                 docPages, text, total_pages, ocrFrom, retval, outFile, openDocs, opens,
                 calls>>
  /\ UNCHANGED returns
  /\ UNCHANGED rvars
  /\ UNCHANGED session

\* main() 451-460: the engine's availability.
CheckEngineAvailable ==
  /\ pc = "check_engine"
  /\ IF engine = "pdfminer" /\ ~PDFMINER_AVAILABLE
     THEN /\ pc' = "exited"
          /\ exitCode' = 1
          /\ log' = Append(log, Err("pdfminer_engine_missing"))
     ELSE /\ pc' = "check_page"
          /\ log' = Append(log, Info("engine"))
          /\ UNCHANGED exitCode
  /\ UNCHANGED <<prog, PDFMINER_AVAILABLE, PYMUPDF_AVAILABLE, PYTESSERACT_AVAILABLE,
                 pathState, docPages, engine, page_number, text, total_pages, ocrFrom,
                 raised, retval, outFile, openDocs, opens, calls>>
  /\ UNCHANGED returns
  /\ UNCHANGED rvars
  /\ UNCHANGED session

\* Mutant of CheckPageNumber: main() leaves the page number to the backends.
CheckPageNumber_LeftToBackends ==
  /\ pc = "check_page"
  /\ pc' = "validate"
  /\ UNCHANGED <<exitCode, log>>
  /\ UNCHANGED <<prog, PDFMINER_AVAILABLE, PYMUPDF_AVAILABLE, PYTESSERACT_AVAILABLE,
                 pathState, docPages, engine, page_number, text, total_pages, ocrFrom,
                 raised, retval, outFile, openDocs, opens, calls>>
  /\ UNCHANGED returns
  /\ UNCHANGED rvars
  /\ UNCHANGED session

\* main() 462-465: the page number is at least 1.
CheckPageNumber ==
  /\ pc = "check_page"
  /\ IF page_number < 1
     THEN /\ pc' = "exited"
          /\ exitCode' = 1
          /\ log' = Append(log, Entry("ERROR", "page_below_one", page_number, 0, <<>>))
     ELSE /\ pc' = "validate"
          /\ UNCHANGED <<exitCode, log>>
  /\ UNCHANGED <<prog, PDFMINER_AVAILABLE, PYMUPDF_AVAILABLE, PYTESSERACT_AVAILABLE,
                 pathState, docPages, engine, page_number, text, total_pages, ocrFrom,
                 raised, retval, outFile, openDocs, opens, calls>>
  /\ UNCHANGED returns
  /\ UNCHANGED rvars
  /\ UNCHANGED session

\* Mutant of ValidatePdfFile: the output file is opened for writing as soon
\* as the input path is accepted.
ValidatePdfFile_OpensOutputFirst ==
  /\ pc = "validate"
  /\ CASE pathState = "missing" ->
            /\ MainExcept(Exc("FileNotFoundError", "pdf_not_found", 0, 0), log)
            /\ UNCHANGED outFile
       [] pathState = "dir" ->
            /\ MainExcept(Exc("ValueError", "not_a_file", 0, 0), log)
            /\ UNCHANGED outFile
       [] OTHER ->
            /\ pc' = "ept"
            /\ log' = IF pathState = "file.other"
                      THEN Append(log, Warn("suffix_not_pdf")) ELSE log
            /\ outFile' = [exists |-> TRUE, content |-> <<>>, writes |-> outFile.writes + 1]
            /\ UNCHANGED <<exitCode, raised>>
  /\ UNCHANGED <<prog, PDFMINER_AVAILABLE, PYMUPDF_AVAILABLE, PYTESSERACT_AVAILABLE,
                 pathState, docPages, engine, page_number, text, total_pages, ocrFrom,
                 retval, openDocs, opens, calls>>
  /\ UNCHANGED returns
  /\ UNCHANGED rvars
  /\ UNCHANGED session

\* validate_pdf_file (64-82), called at 468.
ValidatePdfFile ==
  /\ pc = "validate"
  /\ CASE pathState = "missing" ->
            /\ MainExcept(Exc("FileNotFoundError", "pdf_not_found", 0, 0), log)
       [] pathState = "dir" ->
            /\ MainExcept(Exc("ValueError", "not_a_file", 0, 0), log)
       [] OTHER ->
            /\ pc' = "ept"
            /\ log' = IF pathState = "file.other"
                      THEN Append(log, Warn("suffix_not_pdf")) ELSE log
            /\ UNCHANGED <<exitCode, raised>>
  /\ UNCHANGED <<prog, PDFMINER_AVAILABLE, PYMUPDF_AVAILABLE, PYTESSERACT_AVAILABLE,
                 pathState, docPages, engine, page_number, text, total_pages, ocrFrom,
                 retval, outFile, openDocs, opens, calls>>
  /\ UNCHANGED returns
  /\ UNCHANGED rvars
  /\ UNCHANGED session

\* A direct call extract_page_text(pdf_path, page_number, engine) by a
\* library user: any engine name, any page number, an existing file or not.
CallExtractPageText ==
  /\ pc = "loaded"
  /\ prog' = "extract_page_text"
  /\ pc' = "ept"
  /\ \E eng \in EngineArgs, p \in PageArgs :
       /\ engine' = eng
       /\ page_number' = p
  /\ UNCHANGED <<PDFMINER_AVAILABLE, PYMUPDF_AVAILABLE, PYTESSERACT_AVAILABLE, pathState,
                 docPages, text, total_pages, ocrFrom, exitCode, raised, retval, outFile,
                 openDocs, opens, calls, log>>
  /\ UNCHANGED returns
  /\ UNCHANGED rvars
  /\ UNCHANGED session

\* --------------------------------------- pdf_page_text.py: the backends
\* What opening pdf_path gives: the exception raised, or NoExc for success.
OpenOutcomes ==
  CASE pathState = "missing" -> {Exc("FileNotFoundError", "os", 0, 0)}
    [] pathState = "dir" -> {Exc("Exception", "is_a_directory", 0, 0)}
    [] OTHER -> OpenErrors \cup {NoExc}

Returned(by, t) == [by |-> by, value |-> t]

\* Mutant of OutOfRange: the error names the requested page only.
OutOfRange_PageOnly(p, n) == Exc("ValueError", "page_out_of_range", p, 0)

OutOfRange(p, n) == Exc("ValueError", "page_out_of_range", p, n)

\* Mutant of ExtractPageText: an unknown engine name is treated as the
\* default engine instead of being rejected.
ExtractPageText_DefaultsToPypdf ==
  /\ pc = "ept"
  /\ IF engine = "ocr"
     THEN /\ pc' = "ocr_deps"
          /\ ocrFrom' = "engine"
          /\ calls' = Append(calls, "ocr")
     ELSE IF engine = "pdfminer"
     THEN /\ pc' = "pdfminer_deps"
          /\ calls' = Append(calls, "pdfminer")
          /\ UNCHANGED ocrFrom
     ELSE /\ pc' = "pypdf_open"
          /\ calls' = Append(calls, "pypdf")
          /\ UNCHANGED ocrFrom
  /\ UNCHANGED <<prog, PDFMINER_AVAILABLE, PYMUPDF_AVAILABLE, PYTESSERACT_AVAILABLE,
                 pathState, docPages, engine, page_number, text, total_pages, retval,
                 outFile, openDocs, opens, exitCode, raised, log, returns>>
  /\ UNCHANGED rvars
  /\ UNCHANGED session

\* extract_page_text 300-313: engine dispatch.
ExtractPageText ==
  /\ pc = "ept"
  /\ CASE engine = "ocr" ->
            /\ pc' = "ocr_deps"
            /\ ocrFrom' = "engine"
            /\ calls' = Append(calls, "ocr")
            /\ UNCHANGED <<exitCode, raised, log>>
       [] engine = "pypdf" ->
            /\ pc' = "pypdf_open"
            /\ calls' = Append(calls, "pypdf")
            /\ UNCHANGED <<ocrFrom, exitCode, raised, log>>
       [] engine = "pdfminer" ->
            /\ pc' = "pdfminer_deps"
            /\ calls' = Append(calls, "pdfminer")
            /\ UNCHANGED <<ocrFrom, exitCode, raised, log>>
       [] OTHER ->
            /\ Propagate(Exc("ValueError", "invalid_engine", 0, 0), log)
            /\ UNCHANGED <<ocrFrom, calls>>
  /\ UNCHANGED <<prog, PDFMINER_AVAILABLE, PYMUPDF_AVAILABLE, PYTESSERACT_AVAILABLE,
                 pathState, docPages, engine, page_number, text, total_pages, retval,
                 outFile, openDocs, opens>>
  /\ UNCHANGED returns
  /\ UNCHANGED rvars
  /\ UNCHANGED session

\* extract_page_text_pypdf 100-115: open the reader, locate the page.
PypdfOpen ==
  /\ pc = "pypdf_open"
  /\ \E o \in OpenOutcomes :
       IF o # NoExc
       THEN /\ Propagate(o, BackendExceptLog(o, "extract_failed"))
            /\ UNCHANGED <<total_pages, opens>>
       ELSE /\ opens' = opens + 1
            /\ total_pages' = docPages
            /\ LET lg == Append(log, Entry("INFO", "total_pages", 0, docPages, <<>>))
                   page_index == page_number - 1
               IN IF page_index < 0 \/ page_index >= docPages
                  THEN Propagate(OutOfRange(page_number, docPages), lg)
                  ELSE /\ pc' = "pypdf_extract"
                       /\ log' = Append(lg, Info("parsing_page"))
                       /\ UNCHANGED <<exitCode, raised>>
  /\ UNCHANGED <<prog, PDFMINER_AVAILABLE, PYMUPDF_AVAILABLE, PYTESSERACT_AVAILABLE,
                 pathState, docPages, engine, page_number, text, ocrFrom, retval, outFile,
                 openDocs, calls>>
  /\ UNCHANGED returns
  /\ UNCHANGED rvars
  /\ UNCHANGED session

\* Mutant of LayerTexts: a document of images can yield text-layer text.
LayerTexts_ImagesHaveText == Texts

\* What a text-layer library can find on a page of the document: any text,
\* or nothing but white space when the document holds images only.
LayerTexts == IF imageOnly THEN {t \in Texts : IsBlank(t)} ELSE Texts

\* extract_page_text_pypdf 117-134: page.extract_text(), blank test, NFC.
PypdfExtract ==
  /\ pc = "pypdf_extract"
  /\ \/ \E t \in LayerTexts :
          /\ text' = Finalize(t)
          /\ returns' = Append(returns, Returned("pypdf", Finalize(t)))
          /\ pc' = "ept_check"
          /\ log' = IF IsBlank(t) THEN Append(log, Warn("no_text_on_page")) ELSE log
          /\ UNCHANGED <<exitCode, raised>>
     \/ \E e \in ProcessErrors :
          /\ Propagate(e, BackendExceptLog(e, "extract_failed"))
          /\ UNCHANGED <<text, returns>>
  /\ UNCHANGED <<prog, PDFMINER_AVAILABLE, PYMUPDF_AVAILABLE, PYTESSERACT_AVAILABLE,
                 pathState, docPages, engine, page_number, total_pages, ocrFrom, retval,
                 outFile, openDocs, opens, calls>>
  /\ UNCHANGED rvars
  /\ UNCHANGED session

\* extract_page_text_pdfminer 153-157: the dependency.
PdfminerDeps ==
  /\ pc = "pdfminer_deps"
  /\ IF ~PDFMINER_AVAILABLE
     THEN Propagate(Exc("ImportError", "pdfminer_missing", 0, 0), log)
     ELSE /\ pc' = "pdfminer_extract"
          /\ UNCHANGED <<exitCode, raised, log>>
  /\ UNCHANGED <<prog, PDFMINER_AVAILABLE, PYMUPDF_AVAILABLE, PYTESSERACT_AVAILABLE,
                 pathState, docPages, engine, page_number, text, total_pages, ocrFrom,
                 retval, outFile, openDocs, opens, calls>>
  /\ UNCHANGED returns
  /\ UNCHANGED rvars
  /\ UNCHANGED session

\* What pdfminer's extract_text(path, page_numbers=[i]) yields: the text of
\* page i when the document has one, and no text at all when it has not
\* (the library filters the document's pages by index).
PdfminerTexts(page_index) == IF page_index < docPages THEN LayerTexts ELSE {<<>>}

\* extract_page_text_pdfminer 159-194: only page_number < 1 is rejected; the
\* function never learns the page count.
PdfminerExtract ==
  /\ pc = "pdfminer_extract"
  /\ LET page_index == page_number - 1 IN
     IF page_number < 1
     THEN /\ Propagate(Exc("ValueError", "page_below_one", page_number, 0), log)
          /\ UNCHANGED <<text, opens, returns>>
     ELSE LET lg == Append(log, Info("parsing_page")) IN
          \E o \in OpenOutcomes :
            IF o # NoExc
            THEN /\ Propagate(o, Append(lg, Err("extract_failed")))
                 /\ UNCHANGED <<text, opens, returns>>
            ELSE /\ opens' = opens + 1
                 /\ \/ \E t \in PdfminerTexts(page_index) :
                         /\ text' = Finalize(t)
                         /\ returns' = Append(returns, Returned("pdfminer", Finalize(t)))
                         /\ pc' = "ept_check"
                         /\ log' = IF IsBlank(t)
                                   THEN Append(lg, Warn("no_text_on_page")) ELSE lg
                         /\ UNCHANGED <<exitCode, raised>>
                    \/ \E e \in ProcessErrors :
                         /\ Propagate(e, Append(lg, Err("extract_failed")))
                         /\ UNCHANGED <<text, returns>>
  /\ UNCHANGED <<prog, PDFMINER_AVAILABLE, PYMUPDF_AVAILABLE, PYTESSERACT_AVAILABLE,
                 pathState, docPages, engine, page_number, total_pages, ocrFrom, retval,
                 outFile, openDocs, calls>>
  /\ UNCHANGED rvars
  /\ UNCHANGED session

\* ------------------------------------ pdf_page_text.py: the OCR extractor
\* extract_page_text_ocr 216-227: both dependencies, checked in order.
OcrDeps ==
  /\ pc = "ocr_deps"
  /\ IF ~PYMUPDF_AVAILABLE
     THEN LeaveOcr(Exc("ImportError", "pymupdf_missing", 0, 0), log)
     ELSE IF ~PYTESSERACT_AVAILABLE
     THEN LeaveOcr(Exc("ImportError", "pytesseract_missing", 0, 0), log)
     ELSE /\ pc' = "ocr_open"
          /\ UNCHANGED <<text, exitCode, raised, log>>
  /\ UNCHANGED <<prog, PDFMINER_AVAILABLE, PYMUPDF_AVAILABLE, PYTESSERACT_AVAILABLE,
                 pathState, docPages, engine, page_number, total_pages, ocrFrom, retval,
                 outFile, openDocs, opens, calls>>
  /\ UNCHANGED returns
  /\ UNCHANGED rvars
  /\ UNCHANGED session

\* extract_page_text_ocr 229-232: doc = fitz.open(...).
OcrOpen ==
  /\ pc = "ocr_open"
  /\ \E o \in OpenOutcomes :
       IF o # NoExc
       THEN /\ LeaveOcr(o, BackendExceptLog(o, "ocr_failed_inner"))
            /\ UNCHANGED <<total_pages, openDocs, opens>>
       ELSE /\ pc' = "ocr_locate"
            /\ openDocs' = openDocs + 1
            /\ opens' = opens + 1
            /\ total_pages' = docPages
            /\ UNCHANGED <<text, exitCode, raised, log>>
  /\ UNCHANGED <<prog, PDFMINER_AVAILABLE, PYMUPDF_AVAILABLE, PYTESSERACT_AVAILABLE,
                 pathState, docPages, engine, page_number, ocrFrom, retval, outFile, calls>>
  /\ UNCHANGED returns
  /\ UNCHANGED rvars
  /\ UNCHANGED session

\* Mutant of OcrLocate: the out-of-range error is raised with the document
\* still open.
OcrLocate_RaisesWithoutClose ==
  /\ pc = "ocr_locate"
  /\ LET page_index == page_number - 1 IN
     IF page_index < 0 \/ page_index >= total_pages
     THEN /\ UNCHANGED openDocs
          /\ LeaveOcr(OutOfRange(page_number, total_pages), log)
     ELSE /\ pc' = "ocr_render"
          /\ log' = log \o <<Info("ocr_page"), Info("ocr_lang")>>
          /\ UNCHANGED <<text, exitCode, raised, openDocs>>
  /\ UNCHANGED <<prog, PDFMINER_AVAILABLE, PYMUPDF_AVAILABLE, PYTESSERACT_AVAILABLE,
                 pathState, docPages, engine, page_number, total_pages, ocrFrom, retval,
                 outFile, opens, calls>>
  /\ UNCHANGED returns
  /\ UNCHANGED rvars
  /\ UNCHANGED session

\* extract_page_text_ocr 234-245: the page check; the document is closed
\* (238) before the out-of-range error is raised.
OcrLocate ==
  /\ pc = "ocr_locate"
  /\ LET page_index == page_number - 1 IN
     IF page_index < 0 \/ page_index >= total_pages
     THEN /\ openDocs' = openDocs - 1
          /\ LeaveOcr(OutOfRange(page_number, total_pages), log)
     ELSE /\ pc' = "ocr_render"
          /\ log' = log \o <<Info("ocr_page"), Info("ocr_lang")>>
          /\ UNCHANGED <<text, exitCode, raised, openDocs>>
  /\ UNCHANGED <<prog, PDFMINER_AVAILABLE, PYMUPDF_AVAILABLE, PYTESSERACT_AVAILABLE,
                 pathState, docPages, engine, page_number, total_pages, ocrFrom, retval,
                 outFile, opens, calls>>
  /\ UNCHANGED returns
  /\ UNCHANGED rvars
  /\ UNCHANGED session

\* extract_page_text_ocr 247-256: render the page at 150 DPI.  An error goes
\* to the except clause (275-279), which logs and re-raises: no doc.close().
OcrRender ==
  /\ pc = "ocr_render"
  /\ \/ /\ pc' = "ocr_recognize"
        /\ UNCHANGED <<text, exitCode, raised, log>>
     \/ \E e \in ProcessErrors :
          LeaveOcr(e, BackendExceptLog(e, "ocr_failed_inner"))
  /\ UNCHANGED <<prog, PDFMINER_AVAILABLE, PYMUPDF_AVAILABLE, PYTESSERACT_AVAILABLE,
                 pathState, docPages, engine, page_number, total_pages, ocrFrom, retval,
                 outFile, openDocs, opens, calls>>
  /\ UNCHANGED returns
  /\ UNCHANGED rvars
  /\ UNCHANGED session

\* Mutant of ReturnFromOcr: the fallback keeps the text-layer result and
\* drops what OCR recognized.
ReturnFromOcr_FallbackKeepsLayerText(t, lg) ==
  IF ocrFrom = "fallback"
  THEN /\ text' = text
       /\ pc' = "ept_return"
       /\ log' = Append(lg, IF ~IsBlank(t) THEN Info("ocr_extracted")
                                           ELSE Warn("ocr_also_empty"))
       /\ UNCHANGED retval
  ELSE /\ text' = t
       /\ log' = lg
       /\ IF prog = "main"
          THEN pc' = "save" /\ UNCHANGED retval
          ELSE pc' = "returned" /\ retval' = t

\* extract_page_text_ocr returns t: to extract_page_text's caller when the
\* engine is ocr (302), to the fallback otherwise (320-324).
ReturnFromOcr(t, lg) ==
  IF ocrFrom = "fallback"
  THEN /\ text' = t
       /\ pc' = "ept_return"
       /\ log' = Append(lg, IF ~IsBlank(t) THEN Info("ocr_extracted")
                                           ELSE Warn("ocr_also_empty"))
       /\ UNCHANGED retval
  ELSE /\ text' = t
       /\ log' = lg
       /\ IF prog = "main"
          THEN pc' = "save" /\ UNCHANGED retval
          ELSE pc' = "returned" /\ retval' = t

\* What image_to_string reads on the rendered page: the same text each time
\* the same page of the same document is rendered.
OcrTexts == IF pageImage = NotRead THEN Texts ELSE {pageImage}

\* extract_page_text_ocr 258-279: image_to_string, doc.close(), blank test,
\* NFC, return.  An OCR error skips the close.
OcrRecognize ==
  /\ pc = "ocr_recognize"
  /\ \/ \E t \in OcrTexts :
          /\ pageImage' = t
          /\ openDocs' = openDocs - 1
          /\ returns' = Append(returns, Returned("ocr", Finalize(t)))
          /\ ReturnFromOcr(Finalize(t),
                           Append(log, IF IsBlank(t) THEN Warn("ocr_no_text")
                                                     ELSE Info("ocr_chars")))
          /\ UNCHANGED <<exitCode, raised>>
     \/ \E e \in ProcessErrors :
          /\ LeaveOcr(e, BackendExceptLog(e, "ocr_failed_inner"))
          /\ UNCHANGED <<openDocs, retval, returns, pageImage>>
  /\ UNCHANGED <<prog, PDFMINER_AVAILABLE, PYMUPDF_AVAILABLE, PYTESSERACT_AVAILABLE,
                 pathState, docPages, engine, page_number, total_pages, ocrFrom, outFile,
                 opens, calls>>
  /\ UNCHANGED rvars
  /\ UNCHANGED <<first, imageOnly, target, interruptedAt>>

\* ------------------------------ pdf_page_text.py: fallback, return, save
\* Mutant of MissingDeps: the second test is an elif.
MissingDeps_Elif ==
  IF ~PYMUPDF_AVAILABLE THEN <<"PyMuPDF">> ELSE <<"pytesseract">>

MissingDeps ==
  (IF ~PYMUPDF_AVAILABLE THEN <<"PyMuPDF">> ELSE <<>>)
    \o (IF ~PYTESSERACT_AVAILABLE THEN <<"pytesseract">> ELSE <<>>)

\* Mutant of FallbackCheck: the escalation does not test the dependencies.
FallbackCheck_NoDependencyTest ==
  /\ pc = "ept_check"
  /\ IF IsBlank(text)
     THEN /\ pc' = "ocr_deps"
          /\ ocrFrom' = "fallback"
          /\ calls' = Append(calls, "ocr")
          /\ log' = Append(log, Info("trying_ocr"))
     ELSE /\ pc' = "ept_return"
          /\ UNCHANGED <<ocrFrom, calls, log>>
  /\ UNCHANGED <<prog, PDFMINER_AVAILABLE, PYMUPDF_AVAILABLE, PYTESSERACT_AVAILABLE,
                 pathState, docPages, engine, page_number, text, total_pages, exitCode,
                 raised, retval, outFile, openDocs, opens, returns>>
  /\ UNCHANGED rvars
  /\ UNCHANGED session

\* extract_page_text 315-339: a blank text-layer result escalates to OCR
\* when both dependencies are there, and is reported otherwise.
FallbackCheck ==
  /\ pc = "ept_check"
  /\ IF IsBlank(text)
     THEN IF PYMUPDF_AVAILABLE /\ PYTESSERACT_AVAILABLE
          THEN /\ pc' = "ocr_deps"
               /\ ocrFrom' = "fallback"
               /\ calls' = Append(calls, "ocr")
               /\ log' = Append(log, Info("trying_ocr"))
          ELSE /\ pc' = "ept_return"
               /\ log' = Append(log, Entry("WARNING", "ocr_unavailable", 0, 0, MissingDeps))
               /\ UNCHANGED <<ocrFrom, calls>>
     ELSE /\ pc' = "ept_return"
          /\ UNCHANGED <<ocrFrom, calls, log>>
  /\ UNCHANGED <<prog, PDFMINER_AVAILABLE, PYMUPDF_AVAILABLE, PYTESSERACT_AVAILABLE,
                 pathState, docPages, engine, page_number, text, total_pages, exitCode,
                 raised, retval, outFile, openDocs, opens>>
  /\ UNCHANGED returns
  /\ UNCHANGED rvars
  /\ UNCHANGED session

\* Mutant of ReturnText: a blank result makes extract_page_text start over
\* once more instead of returning.
ReturnText_RetriesBlankResult ==
  /\ pc = "ept_return"
  /\ IF IsBlank(text) /\ Len(calls) < 3
     THEN pc' = "ept" /\ UNCHANGED retval
     ELSE IF prog = "main"
     THEN pc' = "save" /\ UNCHANGED retval
     ELSE pc' = "returned" /\ retval' = text
  /\ UNCHANGED <<prog, PDFMINER_AVAILABLE, PYMUPDF_AVAILABLE, PYTESSERACT_AVAILABLE,
                 pathState, docPages, engine, page_number, text, total_pages, ocrFrom,
                 exitCode, raised, outFile, openDocs, opens, calls, log>>
  /\ UNCHANGED returns
  /\ UNCHANGED rvars
  /\ UNCHANGED session

\* extract_page_text 341: return text.
ReturnText ==
  /\ pc = "ept_return"
  /\ IF prog = "main"
     THEN pc' = "save" /\ UNCHANGED retval
     ELSE pc' = "returned" /\ retval' = text
  /\ UNCHANGED <<prog, PDFMINER_AVAILABLE, PYMUPDF_AVAILABLE, PYTESSERACT_AVAILABLE,
                 pathState, docPages, engine, page_number, text, total_pages, ocrFrom,
                 exitCode, raised, outFile, openDocs, opens, calls, log>>
  /\ UNCHANGED returns
  /\ UNCHANGED rvars
  /\ UNCHANGED session

\* Mutant of SaveText: a line end is written after the text.
SaveText_TrailingLineEnd ==
  /\ pc = "save"
  /\ \/ /\ outFile' = [exists |-> TRUE, content |-> Append(text, "sp"),
                       writes |-> outFile.writes + 1]
        /\ pc' = "exited"
        /\ exitCode' = 0
        /\ log' = log \o <<Info("output_file"), Info("done")>>
        /\ UNCHANGED raised
     \/ \E e \in OpenErrors :
          /\ \/ UNCHANGED outFile
             \/ \E k \in 0..Len(text) :
                  outFile' = [exists |-> TRUE, content |-> SubSeq(text, 1, k),
                              writes |-> outFile.writes + 1]
          /\ MainExcept(e, Append(log, Err("write_failed")))
  /\ UNCHANGED <<prog, PDFMINER_AVAILABLE, PYMUPDF_AVAILABLE, PYTESSERACT_AVAILABLE,
                 pathState, docPages, engine, page_number, text, total_pages, ocrFrom,
                 retval, openDocs, opens, calls>>
  /\ UNCHANGED returns
  /\ UNCHANGED rvars
  /\ UNCHANGED session

\* main() 473-480 with generate_output_filename (344-362) and
\* save_text_to_file (365-382): the file is opened for writing (truncated)
\* and the text written; a write error is logged, re-raised and ends the
\* command with status 1, leaving no file or a part of the text.
SaveText ==
  /\ pc = "save"
  /\ \/ /\ outFile' = [exists |-> TRUE, content |-> text, writes |-> outFile.writes + 1]
        /\ pc' = "exited"
        /\ exitCode' = 0
        /\ log' = log \o <<Info("output_file"), Info("done")>>
        /\ UNCHANGED raised
     \/ \E e \in OpenErrors :
          /\ \/ UNCHANGED outFile
             \/ \E k \in 0..Len(text) :
                  outFile' = [exists |-> TRUE, content |-> SubSeq(text, 1, k),
                              writes |-> outFile.writes + 1]
          /\ MainExcept(e, Append(log, Err("write_failed")))
  /\ UNCHANGED <<prog, PDFMINER_AVAILABLE, PYMUPDF_AVAILABLE, PYTESSERACT_AVAILABLE,
                 pathState, docPages, engine, page_number, text, total_pages, ocrFrom,
                 retval, openDocs, opens, calls>>
  /\ UNCHANGED returns
  /\ UNCHANGED rvars
  /\ UNCHANGED session

\* Locations inside an entry point of pdf_page_text.py.
ExtractRunning ==
  {"check_engine", "check_page", "validate", "ept", "pypdf_open", "pypdf_extract",
   "pdfminer_deps", "pdfminer_extract", "ocr_deps", "ocr_open", "ocr_locate",
   "ocr_render", "ocr_recognize", "ept_check", "ept_return", "save"}

\* The locations inside extract_page_text_ocr.
OcrLocations == {"ocr_deps", "ocr_open", "ocr_locate", "ocr_render", "ocr_recognize"}

\* The user interrupts the run.  KeyboardInterrupt derives from
\* BaseException: no `except Exception` on the way catches it (130, 190,
\* 275, 325), only main()'s clause at 498-500 does.  Raised inside
\* extract_page_text_ocr, it leaves that function the way its errors do.
Interrupt ==
  /\ pc \in ExtractRunning
  /\ IF pc \in OcrLocations
     THEN LeaveOcr(KeyboardInterrupt, log)
     ELSE /\ Propagate(KeyboardInterrupt, log)
          /\ text' = text
  /\ interruptedAt' = pc
  /\ UNCHANGED <<prog, PDFMINER_AVAILABLE, PYMUPDF_AVAILABLE, PYTESSERACT_AVAILABLE,
                 pathState, docPages, engine, page_number, total_pages, ocrFrom,
                 retval, outFile, openDocs, opens, calls>>
  /\ UNCHANGED returns
  /\ UNCHANGED rvars
  /\ UNCHANGED <<first, pageImage, imageOnly, target>>

\* ------------------------------------------------ pdf_to_image.py: main
\* Variables of pdf_page_text.py that pdf_to_image.py never touches.
exenv == <<PDFMINER_AVAILABLE, PYMUPDF_AVAILABLE, PYTESSERACT_AVAILABLE, pathState,
           docPages, engine, page_number, text, ocrFrom, retval, outFile, calls, returns,
           session>>

FormatArgs == {"png", "jpeg", "jpg", "bmp"}
FormatChoices == {"png", "jpeg", "jpg"}
DpiArgs == {71, 72, 150, 600, 601}
RangeArgs == {<<>>} \cup {<<a, b>> : a \in 0..(MaxPages + 1), b \in 0..(MaxPages + 1)}
Modes == {"RGB", "P"}

Max(a, b) == IF a >= b THEN a ELSE b
Min(a, b) == IF a <= b THEN a ELSE b

\* Module import (15-27): PyMuPDF and Pillow are both required.
ImportPdfToImage ==
  /\ pc = "start"
  /\ \E mupdf \in BOOLEAN, pil \in BOOLEAN :
       IF ~mupdf \/ ~pil
       THEN /\ pc' = "exited"
            /\ exitCode' = 1
            /\ raised' = SystemExit(1)
            /\ prog' = "raster_import"
       ELSE /\ pc' = "r_loaded"
            /\ UNCHANGED <<exitCode, raised, prog>>
  /\ UNCHANGED <<exenv, total_pages, openDocs, opens, log>>
  /\ UNCHANGED rvars

\* main() up to parse_arguments (291-301, 201-281).
RasterParseArguments ==
  /\ pc = "r_loaded"
  /\ prog' = "raster_main"
  /\ \E cmd \in {"help", "malformed", "ok"}, fmt \in FormatArgs, d \in DpiArgs,
        pr \in RangeArgs, cp \in BOOLEAN, op \in BOOLEAN :
       IF cmd = "help"
       THEN /\ RasterMainExcept(SystemExit(0), log)
            /\ UNCHANGED <<image_format, dpi, page_range, create_pdf, output_pdf>>
       ELSE IF cmd = "malformed" \/ fmt \notin FormatChoices
       THEN /\ RasterMainExcept(SystemExit(2), log)
            /\ UNCHANGED <<image_format, dpi, page_range, create_pdf, output_pdf>>
       ELSE /\ pc' = "r_validate"
            /\ image_format' = fmt
            /\ dpi' = d
            /\ page_range' = pr
            /\ create_pdf' = cp
            /\ output_pdf' = op
            /\ log' = Append(log, Info("start"))
            /\ UNCHANGED <<exitCode, raised>>
  /\ UNCHANGED <<exenv, total_pages, openDocs, opens>>
  /\ UNCHANGED <<dirCreated, start_page, end_page, page_num, image_paths, imageFiles,
                 imgObjs, first_image, images, img_k, pdfOut>>

\* validate_pdf_file (46-64), called at 304.
RasterValidate ==
  /\ pc = "r_validate"
  /\ CASE pathState = "missing" ->
            RasterMainExcept(Exc("FileNotFoundError", "pdf_not_found", 0, 0), log)
       [] pathState = "dir" ->
            RasterMainExcept(Exc("ValueError", "not_a_file", 0, 0), log)
       [] OTHER ->
            /\ pc' = "r_prepare"
            /\ log' = IF pathState = "file.other"
                      THEN Append(log, Warn("suffix_not_pdf")) ELSE log
            /\ UNCHANGED <<exitCode, raised>>
  /\ UNCHANGED <<prog, exenv, total_pages, openDocs, opens>>
  /\ UNCHANGED rvars

\* Mutant of RasterPrepare: the end of the range is not compared with its
\* start.
RasterPrepare_EndNotChecked ==
  /\ pc = "r_prepare"
  /\ image_format' = IF image_format \in {"jpg", "jpeg"} THEN "jpeg" ELSE "png"
  /\ IF page_range # <<>> /\ page_range[1] < 1
     THEN /\ pc' = "exited"
          /\ exitCode' = 1
          /\ log' = Append(log, Err("start_below_one"))
     ELSE /\ pc' = "cv_mkdir"
          /\ log' = IF dpi < 72 \/ dpi > 600
                    THEN Append(log, Entry("WARNING", "dpi_out_of_window", dpi, 0, <<>>))
                    ELSE log
          /\ UNCHANGED exitCode
  /\ UNCHANGED <<prog, exenv, total_pages, raised, openDocs, opens>>
  /\ UNCHANGED <<dpi, page_range, create_pdf, output_pdf, dirCreated, start_page, end_page,
                 page_num, image_paths, imageFiles, imgObjs, first_image, images, img_k,
                 pdfOut>>

\* main() 306-323: format normalization, page range checks, DPI warning.
RasterPrepare ==
  /\ pc = "r_prepare"
  /\ image_format' = IF image_format \in {"jpg", "jpeg"} THEN "jpeg" ELSE "png"
  /\ IF page_range # <<>> /\ page_range[1] < 1
     THEN /\ pc' = "exited"
          /\ exitCode' = 1
          /\ log' = Append(log, Err("start_below_one"))
     ELSE IF page_range # <<>> /\ page_range[2] < page_range[1]
     THEN /\ pc' = "exited"
          /\ exitCode' = 1
          /\ log' = Append(log, Err("end_before_start"))
     ELSE /\ pc' = "cv_mkdir"
          /\ log' = IF dpi < 72 \/ dpi > 600
                    THEN Append(log, Entry("WARNING", "dpi_out_of_window", dpi, 0, <<>>))
                    ELSE log
          /\ UNCHANGED exitCode
  /\ UNCHANGED <<prog, exenv, total_pages, raised, openDocs, opens>>
  /\ UNCHANGED <<dpi, page_range, create_pdf, output_pdf, dirCreated, start_page, end_page,
                 page_num, image_paths, imageFiles, imgObjs, first_image, images, img_k,
                 pdfOut>>

\* A direct call convert_pdf_to_images(pdf_path, output_dir, image_format,
\* dpi, page_range) by a library user.
CallConvertPdfToImages ==
  /\ pc = "r_loaded"
  /\ prog' = "convert_pdf_to_images"
  /\ pc' = "cv_mkdir"
  /\ \E fmt \in FormatArgs, d \in DpiArgs, pr \in RangeArgs :
       /\ image_format' = fmt
       /\ dpi' = d
       /\ page_range' = pr
  /\ UNCHANGED <<exenv, total_pages, exitCode, raised, openDocs, opens, log>>
  /\ UNCHANGED <<create_pdf, output_pdf, dirCreated, start_page, end_page, page_num,
                 image_paths, imageFiles, imgObjs, first_image, images, img_k, pdfOut>>

\* Mutant of ConvertMkdir: the result list is not started afresh.
ConvertMkdir_KeepsList ==
  /\ pc = "cv_mkdir"
  /\ \/ /\ dirCreated' = TRUE
        /\ image_paths' = image_paths
        /\ pc' = "cv_open"
        /\ UNCHANGED <<exitCode, raised, log>>
     \/ \E e \in OpenErrors :
          /\ Propagate(e, log)
          /\ UNCHANGED <<dirCreated, image_paths>>
  /\ UNCHANGED <<prog, exenv, total_pages, openDocs, opens>>
  /\ UNCHANGED <<image_format, dpi, page_range, create_pdf, output_pdf, start_page,
                 end_page, page_num, imageFiles, imgObjs, first_image, images, img_k,
                 pdfOut>>

\* -------------------------------- pdf_to_image.py: convert_pdf_to_images
\* 90-91: the output directory and the empty result list, before the try.
ConvertMkdir ==
  /\ pc = "cv_mkdir"
  /\ \/ /\ dirCreated' = TRUE
        /\ image_paths' = <<>>
        /\ pc' = "cv_open"
        /\ UNCHANGED <<exitCode, raised, log>>
     \/ \E e \in OpenErrors :
          /\ Propagate(e, log)
          /\ UNCHANGED <<dirCreated, image_paths>>
  /\ UNCHANGED <<prog, exenv, total_pages, openDocs, opens>>
  /\ UNCHANGED <<image_format, dpi, page_range, create_pdf, output_pdf, start_page,
                 end_page, page_num, imageFiles, imgObjs, first_image, images, img_k,
                 pdfOut>>

\* Mutant of ConvertOpen: the 1-based start is used as a 0-based index.
ConvertOpen_StartNotConverted ==
  /\ pc = "cv_open"
  /\ \E o \in OpenOutcomes :
       IF o # NoExc
       THEN /\ Propagate(o, Append(log, Err("convert_failed")))
            /\ UNCHANGED <<total_pages, openDocs, opens, start_page, end_page, page_num>>
       ELSE /\ openDocs' = openDocs + 1
            /\ opens' = opens + 1
            /\ total_pages' = docPages
            /\ start_page' = IF page_range # <<>> THEN Max(0, page_range[1]) ELSE 0
            /\ end_page' = IF page_range # <<>> THEN Min(docPages, page_range[2])
                           ELSE docPages
            /\ page_num' = start_page'
            /\ pc' = "cv_loop"
            /\ log' = log \o <<Entry("INFO", "total_pages", 0, docPages, <<>>),
                               Entry("INFO", "range", start_page' + 1, end_page', <<>>)>>
            /\ UNCHANGED <<exitCode, raised>>
  /\ UNCHANGED <<prog, exenv>>
  /\ UNCHANGED <<image_format, dpi, page_range, create_pdf, output_pdf, dirCreated,
                 image_paths, imageFiles, imgObjs, first_image, images, img_k, pdfOut>>

\* 93-108: doc = fitz.open(...), the page range to render.
ConvertOpen ==
  /\ pc = "cv_open"
  /\ \E o \in OpenOutcomes :
       IF o # NoExc
       THEN /\ Propagate(o, Append(log, Err("convert_failed")))
            /\ UNCHANGED <<total_pages, openDocs, opens, start_page, end_page, page_num>>
       ELSE /\ openDocs' = openDocs + 1
            /\ opens' = opens + 1
            /\ total_pages' = docPages
            /\ start_page' = IF page_range # <<>> THEN Max(0, page_range[1] - 1) ELSE 0
            /\ end_page' = IF page_range # <<>> THEN Min(docPages, page_range[2])
                           ELSE docPages
            /\ page_num' = start_page'
            /\ pc' = "cv_loop"
            /\ log' = log \o <<Entry("INFO", "total_pages", 0, docPages, <<>>),
                               Entry("INFO", "range", start_page' + 1, end_page', <<>>)>>
            /\ UNCHANGED <<exitCode, raised>>
  /\ UNCHANGED <<prog, exenv>>
  /\ UNCHANGED <<image_format, dpi, page_range, create_pdf, output_pdf, dirCreated,
                 image_paths, imageFiles, imgObjs, first_image, images, img_k, pdfOut>>

\* 114: zoom = dpi / 72.0, kept as the fraction <<dpi, 72>>.
Zoom(d) == <<d, 72>>

\* Mutant of ImageFile: the resolution is forced into 72..600 before the
\* zoom is computed.
ImageFile_ZoomClamped(n) ==
  [page |-> n, ext |-> image_format,
   zoom_x |-> Zoom(Max(72, Min(600, dpi))), zoom_y |-> Zoom(Max(72, Min(600, dpi)))]

\* 115-129: the file written for page n: rendered through
\* fitz.Matrix(zoom, zoom), named <stem>-page<n>.<image_format>.
ImageFile(n) ==
  [page |-> n, ext |-> image_format, zoom_x |-> Zoom(dpi), zoom_y |-> Zoom(dpi)]

\* 123-124, 134: the path recorded for page n.
ImagePath(n) == [page |-> n, ext |-> image_format, mode |-> "RGB"]

\* Does the loop body save a file for this format (127-132)?
Saves(fmt) == fmt \in {"png", "jpg", "jpeg"}

\* 110-135: one iteration of the loop: render page_num, save the image,
\* record its path.  An error goes to the except clause (142-144), which
\* logs and re-raises: no doc.close().
ConvertPage ==
  /\ pc = "cv_loop"
  /\ page_num < end_page
  /\ \/ /\ imageFiles' = IF Saves(image_format)
                         THEN imageFiles \cup {ImageFile(page_num + 1)} ELSE imageFiles
        /\ image_paths' = Append(image_paths, ImagePath(page_num + 1))
        /\ page_num' = page_num + 1
        /\ log' = Append(log, Entry("INFO", "page_saved", page_num + 1, 0, <<>>))
        /\ UNCHANGED <<pc, exitCode, raised>>
     \/ \E e \in ProcessErrors :
          /\ Propagate(e, Append(log, Err("convert_failed")))
          /\ \/ UNCHANGED imageFiles
             \/ Saves(image_format) /\ imageFiles' = imageFiles \cup {ImageFile(page_num + 1)}
          /\ UNCHANGED <<image_paths, page_num>>
  /\ UNCHANGED <<prog, exenv, total_pages, openDocs, opens>>
  /\ UNCHANGED <<image_format, dpi, page_range, create_pdf, output_pdf, dirCreated,
                 start_page, end_page, imgObjs, first_image, images, img_k, pdfOut>>

\* 137-140: after the loop: doc.close(), return image_paths.
ConvertClose ==
  /\ pc = "cv_loop"
  /\ page_num >= end_page
  /\ openDocs' = openDocs - 1
  /\ log' = Append(log, Entry("INFO", "converted", Len(image_paths), 0, <<>>))
  /\ pc' = IF prog = "raster_main" THEN "r_after" ELSE "returned"
  /\ UNCHANGED <<prog, exenv, total_pages, exitCode, raised, opens>>
  /\ UNCHANGED rvars

\* main() 334-345: assemble the image PDF when asked, else finish.
RasterAfterConvert ==
  /\ pc = "r_after"
  /\ IF create_pdf
     THEN /\ pc' = "as_check"
          /\ UNCHANGED <<exitCode, log>>
     ELSE /\ pc' = "exited"
          /\ exitCode' = 0
          /\ log' = Append(log, Info("done"))
  /\ UNCHANGED <<prog, exenv, total_pages, raised, openDocs, opens>>
  /\ UNCHANGED rvars


\* ---------------------------------------- pdf_to_image.py: images_to_pdf
\* Image lists a library user hands to images_to_pdf directly.
ImageLists ==
  UNION {[1..n -> {[page |-> q, ext |-> "png", mode |-> m] : q \in 1..MaxImages, m \in Modes}]
         : n \in 0..MaxImages}

CallImagesToPdf ==
  /\ pc = "r_loaded"
  /\ prog' = "images_to_pdf"
  /\ pc' = "as_check"
  /\ \E l \in ImageLists : image_paths' = l
  /\ UNCHANGED <<exenv, total_pages, exitCode, raised, openDocs, opens, log>>
  /\ UNCHANGED <<image_format, dpi, page_range, create_pdf, output_pdf, dirCreated,
                 start_page, end_page, page_num, imageFiles, imgObjs, first_image, images,
                 img_k, pdfOut>>

\* A Pillow image object: the input it comes from, its mode, whether
\* close() has been called on it.
ImgObj(src, m) == [src |-> src, mode |-> m, open |-> TRUE]

\* Every exception inside images_to_pdf reaches its except clause (196-198):
\* logged and re-raised, nothing closed.
AssembleExcept(e) == Propagate(e, Append(log, Err("assemble_failed")))

\* Mutant of AssembleCheck: the list is not tested for emptiness.
AssembleCheck_NoEmptyTest ==
  /\ pc = "as_check"
  /\ pc' = "as_open_first"
  /\ log' = Append(log, Entry("INFO", "assembling", Len(image_paths), 0, <<>>))
  /\ UNCHANGED <<exitCode, raised>>
  /\ UNCHANGED <<prog, exenv, total_pages, openDocs, opens>>
  /\ UNCHANGED rvars

\* 158-162: the list must not be empty.
AssembleCheck ==
  /\ pc = "as_check"
  /\ IF image_paths = <<>>
     THEN AssembleExcept(Exc("ValueError", "empty_image_list", 0, 0))
     ELSE /\ pc' = "as_open_first"
          /\ log' = Append(log, Entry("INFO", "assembling", Len(image_paths), 0, <<>>))
          /\ UNCHANGED <<exitCode, raised>>
  /\ UNCHANGED <<prog, exenv, total_pages, openDocs, opens>>
  /\ UNCHANGED rvars

\* Can Image.open read this path?  A path whose file was never written
\* (a format the rasterizer does not save) cannot be opened.
Readable(path) ==
  \/ prog = "images_to_pdf"
  \/ \E f \in imageFiles : f.page = path.page /\ f.ext = path.ext

\* 164-166: images = [], first_image = Image.open(image_paths[0]).
AssembleOpenFirst ==
  /\ pc = "as_open_first"
  /\ \/ /\ Readable(image_paths[1])
        /\ imgObjs' = Append(imgObjs, ImgObj(1, image_paths[1].mode))
        /\ first_image' = Len(imgObjs) + 1
        /\ images' = <<>>
        /\ img_k' = 2
        /\ pc' = "as_open_next"
        /\ UNCHANGED <<exitCode, raised, log>>
     \/ \E e \in OpenErrors :
          /\ AssembleExcept(e)
          /\ UNCHANGED <<imgObjs, first_image, images, img_k>>
  /\ UNCHANGED <<prog, exenv, total_pages, openDocs, opens>>
  /\ UNCHANGED <<image_format, dpi, page_range, create_pdf, output_pdf, dirCreated,
                 start_page, end_page, page_num, image_paths, imageFiles, pdfOut>>

\* 168-174: one iteration over image_paths[1:]: open, convert to RGB when
\* needed (the converted copy replaces the opened image in `img`; the
\* opened one is dropped unclosed), append.
AssembleOpenNext ==
  /\ pc = "as_open_next"
  /\ img_k <= Len(image_paths)
  /\ \/ /\ Readable(image_paths[img_k])
        /\ LET m == image_paths[img_k].mode
               opened == Append(imgObjs, ImgObj(img_k, m))
           IN IF m # "RGB"
              THEN /\ imgObjs' = Append(opened, ImgObj(img_k, "RGB"))
                   /\ images' = Append(images, Len(opened) + 1)
              ELSE /\ imgObjs' = opened
                   /\ images' = Append(images, Len(opened))
        /\ img_k' = img_k + 1
        /\ UNCHANGED <<pc, exitCode, raised, log>>
     \/ \E e \in OpenErrors :
          /\ AssembleExcept(e)
          /\ UNCHANGED <<imgObjs, images, img_k>>
     \/ \E e \in ProcessErrors :
          /\ image_paths[img_k].mode # "RGB"
          /\ AssembleExcept(e)
          /\ imgObjs' = Append(imgObjs, ImgObj(img_k, image_paths[img_k].mode))
          /\ UNCHANGED <<images, img_k>>
  /\ UNCHANGED <<prog, exenv, total_pages, openDocs, opens>>
  /\ UNCHANGED <<image_format, dpi, page_range, create_pdf, output_pdf, dirCreated,
                 start_page, end_page, page_num, image_paths, imageFiles, first_image,
                 pdfOut>>

\* 176-178: the first image is converted last.
AssembleConvertFirst ==
  /\ pc = "as_open_next"
  /\ img_k > Len(image_paths)
  /\ IF imgObjs[first_image].mode # "RGB"
     THEN \/ /\ imgObjs' = Append(imgObjs, ImgObj(1, "RGB"))
             /\ first_image' = Len(imgObjs) + 1
             /\ pc' = "as_save"
             /\ UNCHANGED <<exitCode, raised, log>>
          \/ \E e \in ProcessErrors :
               /\ AssembleExcept(e)
               /\ UNCHANGED <<imgObjs, first_image>>
     ELSE /\ pc' = "as_save"
          /\ UNCHANGED <<imgObjs, first_image, exitCode, raised, log>>
  /\ UNCHANGED <<prog, exenv, total_pages, openDocs, opens>>
  /\ UNCHANGED <<image_format, dpi, page_range, create_pdf, output_pdf, dirCreated,
                 start_page, end_page, page_num, image_paths, imageFiles, images, img_k,
                 pdfOut>>

PdfPage(o) == [src |-> o.src, mode |-> o.mode]

\* Mutant of AssembleSave: the first image is written after the others.
AssembleSave_FirstImageLast ==
  /\ pc = "as_save"
  /\ LET pages == [i \in 1..Len(images) |-> PdfPage(imgObjs[images[i]])]
                    \o <<PdfPage(imgObjs[first_image])>>
     IN \/ /\ pdfOut' = [exists |-> TRUE, pages |-> pages]
           /\ pc' = "as_close"
           /\ UNCHANGED <<exitCode, raised, log>>
        \/ \E e \in OpenErrors :
             /\ AssembleExcept(e)
             /\ \/ UNCHANGED pdfOut
                \/ \E k \in 0..Len(pages) :
                     pdfOut' = [exists |-> TRUE, pages |-> SubSeq(pages, 1, k)]
  /\ UNCHANGED <<prog, exenv, total_pages, openDocs, opens>>
  /\ UNCHANGED <<image_format, dpi, page_range, create_pdf, output_pdf, dirCreated,
                 start_page, end_page, page_num, image_paths, imageFiles, imgObjs,
                 first_image, images, img_k>>

\* 180-187: first_image.save(..., "PDF", save_all=True, append_images=images).
AssembleSave ==
  /\ pc = "as_save"
  /\ LET pages == <<PdfPage(imgObjs[first_image])>>
                    \o [i \in 1..Len(images) |-> PdfPage(imgObjs[images[i]])]
     IN \/ /\ pdfOut' = [exists |-> TRUE, pages |-> pages]
           /\ pc' = "as_close"
           /\ UNCHANGED <<exitCode, raised, log>>
        \/ \E e \in OpenErrors :
             /\ AssembleExcept(e)
             /\ \/ UNCHANGED pdfOut
                \/ \E k \in 0..Len(pages) :
                     pdfOut' = [exists |-> TRUE, pages |-> SubSeq(pages, 1, k)]
  /\ UNCHANGED <<prog, exenv, total_pages, openDocs, opens>>
  /\ UNCHANGED <<image_format, dpi, page_range, create_pdf, output_pdf, dirCreated,
                 start_page, end_page, page_num, image_paths, imageFiles, imgObjs,
                 first_image, images, img_k>>

\* 189-194: close first_image and the images of the list, return; back in
\* main() (344-345) the command finishes.
AssembleClose ==
  /\ pc = "as_close"
  /\ imgObjs' = [i \in 1..Len(imgObjs) |->
                   IF i = first_image \/ (\E j \in 1..Len(images) : images[j] = i)
                   THEN [imgObjs[i] EXCEPT !.open = FALSE] ELSE imgObjs[i]]
  /\ IF prog = "raster_main"
     THEN /\ pc' = "exited"
          /\ exitCode' = 0
          /\ log' = log \o <<Info("pdf_created"), Info("done")>>
     ELSE /\ pc' = "returned"
          /\ log' = Append(log, Info("pdf_created"))
          /\ UNCHANGED exitCode
  /\ UNCHANGED <<prog, exenv, total_pages, raised, openDocs, opens>>
  /\ UNCHANGED <<image_format, dpi, page_range, create_pdf, output_pdf, dirCreated,
                 start_page, end_page, page_num, image_paths, imageFiles, first_image,
                 images, img_k, pdfOut>>

\* Locations inside an entry point of pdf_to_image.py.
RasterRunning ==
  {"r_validate", "r_prepare", "cv_mkdir", "cv_open", "cv_loop", "r_after", "as_check",
   "as_open_first", "as_open_next", "as_save", "as_close"}

\* The user interrupts the run: only main()'s clause at 359-361 catches
\* KeyboardInterrupt.
RasterInterrupt ==
  /\ pc \in RasterRunning
  /\ Propagate(KeyboardInterrupt, log)
  /\ UNCHANGED <<prog, exenv, total_pages, openDocs, opens>>
  /\ UNCHANGED rvars

\* ---------------------------------------------------------------- Next
Next ==
  \/ ImportPdfPageText
  \/ ParseArguments
  \/ CheckEngineAvailable
  \/ CheckPageNumber
  \/ ValidatePdfFile
  \/ CallExtractPageText
  \/ ExtractPageText
  \/ PypdfOpen
  \/ PypdfExtract
  \/ PdfminerDeps
  \/ PdfminerExtract
  \/ OcrDeps
  \/ OcrOpen
  \/ OcrLocate
  \/ OcrRender
  \/ OcrRecognize
  \/ FallbackCheck
  \/ ReturnText
  \/ SaveText
  \/ Interrupt
  \/ ImportPdfToImage
  \/ RasterParseArguments
  \/ RasterValidate
  \/ RasterPrepare
  \/ CallConvertPdfToImages
  \/ ConvertMkdir
  \/ ConvertOpen
  \/ ConvertPage
  \/ ConvertClose
  \/ RasterAfterConvert
  \/ CallImagesToPdf
  \/ AssembleCheck
  \/ AssembleOpenFirst
  \/ AssembleOpenNext
  \/ AssembleConvertFirst
  \/ AssembleSave
  \/ AssembleClose
  \/ RasterInterrupt

Spec == Init /\ [][Next]_vars

\* ------------------------------------------- two calls in one process
\* A library user who has called extract_page_text calls it again with
\* engine="ocr" on the same pdf_path and page_number (282-299): the outcome
\* of the first call is kept for comparison, the locals start afresh.
CallAgainWithOcr ==
  /\ pc = "returned"
  /\ prog = "extract_page_text"
  /\ ~first.done
  /\ raised.type # "KeyboardInterrupt"
  /\ first' = [done |-> TRUE, engine |-> engine, raised |-> raised, retval |-> retval,
               returns |-> returns, files |-> imageFiles]
  /\ engine' = "ocr"
  /\ pc' = "ept"
  /\ raised' = NoExc
  /\ retval' = <<>>
  /\ text' = <<>>
  /\ ocrFrom' = ""
  /\ calls' = <<>>
  /\ returns' = <<>>
  /\ UNCHANGED <<prog, PDFMINER_AVAILABLE, PYMUPDF_AVAILABLE, PYTESSERACT_AVAILABLE,
                 pathState, docPages, page_number, total_pages, exitCode, outFile,
                 openDocs, opens, log>>
  /\ UNCHANGED rvars
  /\ UNCHANGED <<pageImage, imageOnly, target, interruptedAt>>

TwoCallsNext ==
  \/ ImportPdfPageText
  \/ CallExtractPageText
  \/ ExtractPageText
  \/ PypdfOpen
  \/ PypdfExtract
  \/ PdfminerDeps
  \/ PdfminerExtract
  \/ OcrDeps
  \/ OcrOpen
  \/ OcrLocate
  \/ OcrRender
  \/ OcrRecognize
  \/ FallbackCheck
  \/ ReturnText
  \/ Interrupt
  \/ CallAgainWithOcr

\* extract_page_text called twice on the same page, the second time with
\* engine="ocr".
TwoCalls == Init /\ [][TwoCallsNext]_vars

\* ------------------------------------ two conversions in one process
\* A library user who has called convert_pdf_to_images calls it again with
\* the same pdf_path, output_dir, image_format, dpi and page_range (67-73):
\* the list the first call returned and the files it left are kept for
\* comparison; the directory, the files and a document the first call left
\* open are still there.
ConvertAgain ==
  /\ pc = "returned"
  /\ prog = "convert_pdf_to_images"
  /\ ~first.done
  /\ raised.type # "KeyboardInterrupt"
  /\ first' = [done |-> TRUE, engine |-> "", raised |-> raised, retval |-> image_paths,
               returns |-> <<>>, files |-> imageFiles]
  /\ pc' = "cv_mkdir"
  /\ raised' = NoExc
  /\ total_pages' = 0
  /\ start_page' = 0
  /\ end_page' = 0
  /\ page_num' = 0
  /\ UNCHANGED <<prog, PDFMINER_AVAILABLE, PYMUPDF_AVAILABLE, PYTESSERACT_AVAILABLE,
                 pathState, docPages, engine, page_number, text, ocrFrom, exitCode, retval,
                 outFile, openDocs, opens, calls, returns, log>>
  /\ UNCHANGED <<image_format, dpi, page_range, create_pdf, output_pdf, dirCreated,
                 image_paths, imageFiles, imgObjs, first_image, images, img_k, pdfOut>>
  /\ UNCHANGED <<pageImage, imageOnly, target, interruptedAt>>

TwoConversionsNext ==
  \/ ImportPdfToImage
  \/ CallConvertPdfToImages
  \/ ConvertMkdir
  \/ ConvertOpen
  \/ ConvertPage
  \/ ConvertClose
  \/ RasterInterrupt
  \/ ConvertAgain

\* convert_pdf_to_images called twice with the same arguments.
TwoConversions == Init /\ [][TwoConversionsNext]_vars

\* ------------------------------------------- two commands, one after
\* the other (tests/test_integration.py, test_full_workflow)
\* The shell starts pdf_to_image.py: the first command of the workflow.
RasterProcess ==
  /\ target = ""
  /\ ImportPdfToImage

\* pdf_to_image.py --create-pdf, run as the test runs it (whole document,
\* default format and resolution), has ended with status 0; the next
\* command, pdf_page_text.py, is given the original document or the
\* assembled PDF.  It is a new process: what the first one held in memory is
\* gone, the files stay.  The assembled PDF has the pages images_to_pdf
\* saved, images only.
StartExtractionCommand ==
  /\ target = ""
  /\ prog = "raster_main" /\ pc = "exited" /\ exitCode = 0 /\ create_pdf
  /\ page_range = <<>> /\ image_format = "png" /\ dpi = 150
  /\ \E tgt \in {"original", "assembled"} :
       /\ target' = tgt
       /\ IF tgt = "assembled"
          THEN /\ pathState' = "file.pdf"
               /\ docPages' = Len(pdfOut.pages)
               /\ imageOnly' = TRUE
          ELSE UNCHANGED <<pathState, docPages, imageOnly>>
  /\ pc' = "start"
  /\ prog' = ""
  /\ exitCode' = -1
  /\ log' = <<>>
  /\ total_pages' = 0
  /\ openDocs' = 0
  /\ opens' = 0
  /\ image_format' = ""
  /\ dpi' = 0
  /\ page_range' = <<>>
  /\ create_pdf' = FALSE
  /\ output_pdf' = FALSE
  /\ start_page' = 0
  /\ end_page' = 0
  /\ page_num' = 0
  /\ image_paths' = <<>>
  /\ imgObjs' = <<>>
  /\ first_image' = 0
  /\ images' = <<>>
  /\ img_k' = 0
  /\ UNCHANGED <<PDFMINER_AVAILABLE, PYMUPDF_AVAILABLE, PYTESSERACT_AVAILABLE, engine,
                 page_number, text, ocrFrom, raised, retval, outFile, calls, returns>>
  /\ UNCHANGED <<dirCreated, imageFiles, pdfOut>>
  /\ UNCHANGED <<first, pageImage, interruptedAt>>

\* The shell starts pdf_page_text.py: the second command of the workflow.
ExtractProcess ==
  /\ target # ""
  /\ ImportPdfPageText

WorkflowNext ==
  \/ RasterProcess
  \/ RasterParseArguments
  \/ RasterValidate
  \/ RasterPrepare
  \/ ConvertMkdir
  \/ ConvertOpen
  \/ ConvertPage
  \/ ConvertClose
  \/ RasterAfterConvert
  \/ AssembleCheck
  \/ AssembleOpenFirst
  \/ AssembleOpenNext
  \/ AssembleConvertFirst
  \/ AssembleSave
  \/ AssembleClose
  \/ RasterInterrupt
  \/ StartExtractionCommand
  \/ ExtractProcess
  \/ ParseArguments
  \/ CheckEngineAvailable
  \/ CheckPageNumber
  \/ ValidatePdfFile
  \/ ExtractPageText
  \/ PypdfOpen
  \/ PypdfExtract
  \/ PdfminerDeps
  \/ PdfminerExtract
  \/ OcrDeps
  \/ OcrOpen
  \/ OcrLocate
  \/ OcrRender
  \/ OcrRecognize
  \/ FallbackCheck
  \/ ReturnText
  \/ SaveText
  \/ Interrupt

\* pdf_to_image.py --create-pdf, then pdf_page_text.py on one of the two
\* documents.
Workflow == Init /\ [][WorkflowNext]_vars

\* ================================================================ claims
Range(q) == {q[i] : i \in 1..Len(q)}
LogHas(m) == \E i \in 1..Len(log) : log[i].msg = m
TextLayerEngine == engine \in {"pypdf", "pdfminer"}
BothOcrDeps == PYMUPDF_AVAILABLE /\ PYTESSERACT_AVAILABLE
Interrupted == raised.type = "KeyboardInterrupt"
\* extract_page_text is past its fallback decision.
PastFallback == pc \in {"ept_return", "save", "returned", "exited"}
\* The output file could not be written (save_text_to_file failed).
WriteFailed == LogHas("write_failed")

\* C1: the extraction command, given a page number beyond the last page of
\* the document, never exits 0 and reports the out-of-range error, whatever
\* the engine; a run that exits 0 with the file written had
\* 1 <= page <= totalPages.
C1_PageBeyondEndRejected ==
  /\ (pc = "exited" /\ prog = "main" /\ calls # <<>> /\ page_number > docPages)
       => /\ exitCode # 0
          /\ (raised.type = "ValueError" => raised = OutOfRange(page_number, docPages))
  /\ (pc = "exited" /\ prog = "main" /\ exitCode = 0 /\ outFile.writes > 0)
       => (1 <= page_number /\ page_number <= docPages)

\* C2: with a text-layer engine, OCR is attempted exactly when the
\* text-layer result is blank and both OCR dependencies are there; non-blank
\* OCR text is then the result, and a non-blank text-layer result is
\* returned as it is with no OCR attempt.
C2_OcrIffBlankAndDeps ==
  TextLayerEngine =>
    /\ ("ocr" \in Range(calls))
         => /\ calls = <<engine, "ocr">>
            /\ Len(returns) >= 1
            /\ returns[1].by = engine
            /\ IsBlank(returns[1].value)
            /\ BothOcrDeps
    /\ (Len(returns) >= 1 /\ IsBlank(returns[1].value) /\ BothOcrDeps
          /\ PastFallback /\ ~Interrupted)
         => calls = <<engine, "ocr">>
    /\ (Len(returns) >= 1 /\ ~IsBlank(returns[1].value))
         => /\ calls = <<engine>>
            /\ text = returns[1].value
            /\ (pc = "returned" /\ raised = NoExc => retval = returns[1].value)
    /\ (Len(returns) = 2 /\ ~IsBlank(returns[2].value))
         => /\ returns[2].by = "ocr"
            /\ text = returns[2].value
            /\ (pc = "returned" /\ raised = NoExc => retval = returns[2].value)

\* C2 witness: the fallback's OCR attempt produced the text that was returned.
C2_Witness ==
  /\ pc = "returned" /\ TextLayerEngine /\ raised = NoExc
  /\ calls = <<engine, "ocr">> /\ Len(returns) = 2
  /\ ~IsBlank(retval) /\ retval = returns[2].value

\* The escalated OCR attempt is over and gave nothing: it raised an error
\* (it never returned) or it returned blank text.
FallbackOcrGaveNothing ==
  /\ TextLayerEngine /\ ocrFrom = "fallback" /\ pc \notin OcrLocations /\ ~Interrupted
  /\ \/ Len(returns) = 1
     \/ Len(returns) = 2 /\ IsBlank(returns[2].value)

\* C3: when the escalated OCR attempt raises an error or yields blank text,
\* extract_page_text returns the empty text and no OCR error leaves it; the
\* command goes on to write the empty file and exits 0 (unless writing the
\* file itself fails).
C3_OcrFailureDegradesToEmpty ==
  FallbackOcrGaveNothing =>
    /\ text = <<>>
    /\ (raised # NoExc => raised \in OpenErrors /\ WriteFailed)
    /\ (pc = "returned" => raised = NoExc /\ retval = <<>>)
    /\ (pc = "exited" /\ ~WriteFailed
          => /\ exitCode = 0
             /\ outFile = [exists |-> TRUE, content |-> <<>>, writes |-> outFile.writes]
             /\ outFile.writes = 1)

\* C3 witness: OCR raised inside the fallback, the command exited 0 with an
\* empty file.
C3_Witness ==
  /\ FallbackOcrGaveNothing /\ Len(returns) = 1
  /\ pc = "exited" /\ exitCode = 0 /\ outFile.writes = 1 /\ outFile.content = <<>>

MissingSet ==
  {d \in {"PyMuPDF", "pytesseract"} :
     \/ d = "PyMuPDF" /\ ~PYMUPDF_AVAILABLE
     \/ d = "pytesseract" /\ ~PYTESSERACT_AVAILABLE}

\* The text-layer result was blank and an OCR dependency is missing.
BlankWithoutOcr ==
  /\ TextLayerEngine /\ Len(returns) >= 1 /\ IsBlank(returns[1].value)
  /\ ~BothOcrDeps /\ PastFallback /\ ~Interrupted

\* C4: a blank text-layer result with an OCR dependency missing: no OCR
\* attempt, the empty text is returned, one warning names exactly the
\* missing dependencies, and the command exits 0 (unless writing the file
\* fails).
C4_MissingDepsReported ==
  BlankWithoutOcr =>
    /\ calls = <<engine>> /\ ocrFrom = "" /\ Len(returns) = 1
    /\ text = <<>>
    /\ \E i \in 1..Len(log) :
         /\ log[i].msg = "ocr_unavailable"
         /\ log[i].level = "WARNING"
         /\ Range(log[i].deps) = MissingSet
         /\ Len(log[i].deps) = Cardinality(MissingSet)
         /\ \A j \in 1..Len(log) : log[j].msg = "ocr_unavailable" => j = i
    /\ (pc = "returned" => raised = NoExc /\ retval = <<>>)
    /\ (pc = "exited" /\ ~WriteFailed => exitCode = 0 /\ raised = NoExc)

\* C4 witness: both dependencies missing, the command exited 0.
C4_Witness ==
  /\ BlankWithoutOcr /\ ~PYMUPDF_AVAILABLE /\ ~PYTESSERACT_AVAILABLE
  /\ pc = "exited" /\ exitCode = 0 /\ outFile.writes = 1

\* extract_page_text_ocr was called for the ocr engine and raised.
OcrEngineRaised ==
  /\ engine = "ocr" /\ calls = <<"ocr">> /\ returns = <<>>
  /\ pc \in {"exited", "returned"}

\* C5: with the ocr engine only the OCR extractor runs: no text-layer
\* backend, no fallback step, and an OCR error (missing dependency,
\* out-of-range page, render or recognition failure) reaches the caller: the
\* command exits non-zero without writing the file.
C5_OcrEngineRunsAlone ==
  engine = "ocr" =>
    /\ calls \in {<<>>, <<"ocr">>}
    /\ ocrFrom \in {"", "engine"}
    /\ Len(returns) <= 1
    /\ \A i \in 1..Len(returns) : returns[i].by = "ocr"
    /\ pc \notin {"pypdf_open", "pypdf_extract", "pdfminer_deps", "pdfminer_extract",
                  "ept_check", "ept_return"}
    /\ ~LogHas("trying_ocr") /\ ~LogHas("ocr_failed") /\ ~LogHas("ocr_unavailable")
    /\ OcrEngineRaised =>
         /\ raised # NoExc
         /\ (pc = "exited" => exitCode \in {1, 130} /\ outFile.writes = 0)
         /\ (~Interrupted /\ ~BothOcrDeps => raised.type = "ImportError")
         /\ (~Interrupted /\ BothOcrDeps /\ opens = 1
               /\ (page_number < 1 \/ page_number > docPages)
               => raised = OutOfRange(page_number, docPages))

\* C5 witness: the ocr engine with a dependency missing ends the command
\* with status 1.
C5_Witness ==
  /\ OcrEngineRaised /\ prog = "main" /\ pc = "exited"
  /\ raised.type = "ImportError" /\ exitCode = 1

\* C6: once control has left extract_page_text_ocr (by return or by an
\* error), no document it opened is still open.
C6_OcrReleasesDocument ==
  (prog \in {"main", "extract_page_text"} /\ pc \notin OcrLocations /\ ~Interrupted)
    => openDocs = 0

\* C7: once control has left convert_pdf_to_images (by return or by an
\* error), the document it opened is closed.
C7_ConvertReleasesDocument ==
  (prog \in {"raster_main", "convert_pdf_to_images"} /\ pc \notin {"cv_open", "cv_loop"}
     /\ ~Interrupted)
    => openDocs = 0

\* C8: once images_to_pdf has ended (by return or by an error), every image
\* it opened or created has been closed.
C8_AssemblerClosesImages ==
  (pc \in {"returned", "exited"} /\ ~Interrupted)
    => \A i \in 1..Len(imgObjs) : ~imgObjs[i].open

\* The text was extracted and the output file written with it.
Written ==
  /\ raised = NoExc /\ Len(returns) >= 1
  /\ outFile = [exists |-> TRUE, content |-> text, writes |-> 1]
  /\ LogHas("output_file")

ExtractionEnded == pc = "exited" /\ prog \in {"main", "import"}

\* C9 as stated: the extraction command ends with 0, 1 or 130 only, and with
\* 0 exactly when the text was extracted and the file written.
C9_ExitStatusZeroOneOr130 ==
  ExtractionEnded =>
    /\ exitCode \in {0, 1, 130}
    /\ (exitCode = 0 <=> Written)

\* C9 amended: the extraction command ends with 0, 1, 2 or 130: 0 exactly
\* when the text was extracted and the file written, or when only the help
\* was asked for; 2 exactly when the argument parser rejects the command
\* line, which includes an invalid engine selector; 130 exactly on an
\* interrupt; 1 exactly when a file-not-found, not-a-file, out-of-range,
\* missing-dependency or unexpected error ended the run.
C9_ExitStatuses ==
  ExtractionEnded =>
    /\ exitCode \in {0, 1, 2, 130}
    /\ (exitCode = 0 <=> (Written \/ raised = SystemExit(0)))
    /\ (exitCode = 2 <=> raised = SystemExit(2))
    /\ (exitCode = 130 <=> Interrupted)
    /\ (exitCode = 1 <=>
          \/ raised.type \in {"FileNotFoundError", "ValueError", "ImportError",
                              "PermissionError", "Exception"}
          \/ raised = SystemExit(1)
          \/ raised = NoExc /\ outFile.writes = 0
               /\ (LogHas("pdfminer_engine_missing") \/ LogHas("page_below_one")))

\* C9 witness: the argument parser rejected the command line.
C9_Witness ==
  /\ ExtractionEnded /\ prog = "main" /\ exitCode = 2 /\ calls = <<>>

\* C10: extract_page_text called with an unknown engine name raises the
\* invalid-engine ValueError before any backend runs or any document is
\* opened, and never reaches the fallback.
C10_InvalidEngineRejectedFirst ==
  (prog = "extract_page_text" /\ engine \notin EngineChoices) =>
    /\ calls = <<>> /\ returns = <<>>
    /\ opens = 0 /\ openDocs = 0
    /\ ocrFrom = ""
    /\ pc \in {"ept", "returned"}
    /\ (pc = "returned" /\ ~Interrupted
          => raised = Exc("ValueError", "invalid_engine", 0, 0))

\* C10 witness: the direct call with an unknown engine has raised.
C10_Witness ==
  /\ prog = "extract_page_text" /\ engine \notin EngineChoices
  /\ pc = "returned" /\ raised.type = "ValueError"


\* ------------------------------------------------------------------ C11
\* The diagnostics that reject a page number: the ERROR entries of the log
\* and the exception that ended the run.
PageRejections ==
  {log[i] : i \in {j \in 1..Len(log) :
                     /\ log[j].level = "ERROR"
                     /\ log[j].msg \in {"page_out_of_range", "page_below_one"}}}
    \cup (IF raised.msg \in {"page_out_of_range", "page_below_one"}
          THEN {ErrOf(raised)} ELSE {})

\* C11 as stated: every rejection of a page number, page < 1 as well as
\* page > totalPages, names the requested page and the valid range
\* 1-totalPages.
C11_RejectionNamesPageAndRange ==
  \A d \in PageRejections : d.page = page_number /\ d.total = docPages

\* C11 amended: every rejection names the requested page; the range check of
\* the pypdf and OCR extractors names the valid range 1-totalPages as well,
\* while the page < 1 check of main() and of the pdfminer extractor names the
\* page only and is made for a page below 1 only.
C11_RejectionDiagnostics ==
  \A d \in PageRejections :
    /\ d.page = page_number
    /\ d.msg = "page_out_of_range"
         => /\ d.total = docPages
            /\ (page_number < 1 \/ page_number > docPages)
            /\ \E i \in 1..Len(calls) : calls[i] \in {"pypdf", "ocr"}
    /\ d.msg = "page_below_one"
         => /\ d.total = 0
            /\ page_number < 1
            /\ (prog = "main" \/ engine = "pdfminer")

\* The command rejects a page beyond the end of the document and names the
\* page and the range.
C11_Witness ==
  /\ pc = "exited" /\ prog = "main" /\ exitCode = 1
  /\ page_number > docPages
  /\ raised = OutOfRange(page_number, docPages)
  /\ ErrOf(raised) \in PageRejections
  /\ LogHas("page_out_of_range")


\* ------------------------------------------------------------------ C12
\* The assembled PDF as it was before the run.
InitialPdf == IF outFile = NoFile THEN NoPdf ELSE OldPdf
AssembleLocations == {"as_open_first", "as_open_next", "as_save", "as_close"}
EmptyInput == Exc("ValueError", "empty_image_list", 0, 0)

\* C12: images_to_pdf called with an empty image list fails with the
\* empty-input error: it never gets past the check, no image has been opened
\* and the output PDF is as it was before; in the rasterization command
\* with --create-pdf the command then exits with status 1.
C12_EmptyInputRejected ==
  /\ pc \in AssembleLocations => image_paths # <<>>
  /\ (image_paths = <<>> /\ LogHas("assemble_failed"))
       => /\ raised = EmptyInput
          /\ imgObjs = <<>>
          /\ pdfOut = InitialPdf
          /\ prog = "raster_main" => (pc = "exited" /\ exitCode = 1 /\ create_pdf)
          /\ prog # "raster_main" => pc = "returned"

\* The command is run with --create-pdf over a range that starts after the
\* last page: no image, the assembler rejects the empty list, an older PDF
\* at the output path is still there.
C12_Witness ==
  /\ prog = "raster_main" /\ create_pdf /\ pc = "exited" /\ exitCode = 1
  /\ image_paths = <<>> /\ raised = EmptyInput /\ LogHas("assemble_failed")
  /\ pdfOut = OldPdf /\ imgObjs = <<>>


\* ------------------------------------------------------------------ C13
\* images_to_pdf has saved the PDF without an error.
Assembled == pc = "as_close" \/ LogHas("pdf_created")

\* C13: the PDF assembled from a non-empty list of n images has exactly n
\* pages, page i is image i of the list (input order, nothing dropped or
\* duplicated), and every page is embedded in RGB.
C13_PagesAreInputsInOrder ==
  Assembled =>
    /\ image_paths # <<>>
    /\ pdfOut.exists
    /\ Len(pdfOut.pages) = Len(image_paths)
    /\ \A i \in 1..Len(image_paths) : pdfOut.pages[i] = [src |-> i, mode |-> "RGB"]

\* Two different images, the first one not RGB, have been assembled.
C13_Witness ==
  /\ Assembled /\ pc = "returned" /\ raised = NoExc
  /\ Len(image_paths) = 2
  /\ image_paths[1].mode = "P" /\ image_paths[2].mode = "RGB"
  /\ image_paths[1].page # image_paths[2].page
  /\ Len(pdfOut.pages) = 2


\* ------------------------------------------------------------------ C14
\* convert_pdf_to_images is the function running, or has run.
Converting == prog \in {"raster_main", "convert_pdf_to_images"}
\* convert_pdf_to_images has returned its list (139-140).
Converted == Converting /\ LogHas("converted")
\* The range asked for: the whole document when none is given.
FirstAsked == IF page_range = <<>> THEN 1 ELSE page_range[1]
LastAsked == IF page_range = <<>> THEN docPages ELSE page_range[2]
RangeInsideDocument == 1 <= FirstAsked /\ FirstAsked <= LastAsked /\ LastAsked <= docPages

\* C14: with no range, or a range [s, e] inside the document, and one of the
\* image formats the function knows, convert_pdf_to_images writes exactly
\* one image per page of s..e, returns their paths in ascending page order,
\* each <stem>-page<N>.<ext> with N the 1-based page number, and at no
\* time is there a file for a page outside [s, e].
C14_OneImagePerPageOfRange ==
  (Converting /\ RangeInsideDocument /\ Saves(image_format)) =>
    /\ \A f \in imageFiles :
         FirstAsked <= f.page /\ f.page <= LastAsked /\ f.ext = image_format
    /\ Converted =>
         /\ image_paths = [i \in 1..(LastAsked - FirstAsked + 1) |->
                             [page |-> FirstAsked + i - 1, ext |-> image_format,
                              mode |-> "RGB"]]
         /\ {f.page : f \in imageFiles} = FirstAsked..LastAsked
         /\ Cardinality(imageFiles) = LastAsked - FirstAsked + 1

\* The last page alone of a two-page document has been converted.
C14_Witness ==
  /\ Converted /\ pc = "returned" /\ raised = NoExc
  /\ docPages = 2 /\ page_range = <<2, 2>> /\ image_format = "jpeg"
  /\ Len(image_paths) = 1 /\ image_paths[1].page = 2
  /\ Cardinality(imageFiles) = 1


\* ------------------------------------------------------------------ C15
\* C15: a page range [start, end] with start >= 1 and end >= start is
\* clamped to the document before use: once the range to render is
\* computed, its first page start_page + 1 and its last page end_page both
\* lie in 1..totalPages and the range is not empty.
C15_RangeClampedToDocument ==
  (Converting /\ LogHas("range") /\ page_range # <<>>
     /\ page_range[1] >= 1 /\ page_range[2] >= page_range[1]) =>
    /\ 1 <= start_page + 1 /\ start_page + 1 <= total_pages
    /\ 1 <= end_page /\ end_page <= total_pages
    /\ start_page + 1 <= end_page


\* ------------------------------------------------------------------ C16
\* The page range of the command line is not a range.
BadRange == page_range # <<>> /\ (page_range[1] < 1 \/ page_range[2] < page_range[1])

\* C16: the rasterization command given a range with start < 1 or
\* end < start never gets to convert_pdf_to_images: the document is not
\* opened, no page is rendered, no image file is written, the output
\* directory is not created, and the command ends with status 1 (130 when
\* it is interrupted before the check).
C16_BadRangeRejectedBeforeOpen ==
  (prog = "raster_main" /\ BadRange) =>
    /\ pc \in {"r_validate", "r_prepare", "exited"}
    /\ opens = 0 /\ openDocs = 0
    /\ ~dirCreated
    /\ imageFiles = {} /\ image_paths = <<>>
    /\ ~LogHas("page_saved")
    /\ pdfOut = InitialPdf
    /\ (pc = "exited" /\ ~Interrupted) => exitCode = 1
    /\ (pc = "exited" /\ raised = NoExc)
         => (LogHas("start_below_one") \/ LogHas("end_before_start"))

\* A range whose end is before its start has been rejected by the check.
C16_Witness ==
  /\ prog = "raster_main" /\ page_range = <<2, 1>>
  /\ pc = "exited" /\ exitCode = 1 /\ raised = NoExc
  /\ LogHas("end_before_start")
  /\ ~dirCreated /\ opens = 0


\* ------------------------------------------------------------------ C17
DpiOutOfWindow == dpi < 72 \/ dpi > 600
\* The command has passed its argument checks (306-323).
PastPrepare ==
  /\ prog = "raster_main"
  /\ pc \in RasterRunning \ {"r_validate", "r_prepare"} \/ dirCreated
\* What the command does about the resolution, whatever the zoom used.
DpiNeverAnError ==
  /\ \A i \in 1..Len(log) :
       log[i].msg = "dpi_out_of_window"
         => (DpiOutOfWindow /\ log[i].level = "WARNING" /\ log[i].page = dpi)
  /\ (PastPrepare /\ DpiOutOfWindow) => LogHas("dpi_out_of_window")
  /\ (prog = "raster_main" /\ pc = "exited" /\ exitCode = 1 /\ raised = NoExc)
       => BadRange
  /\ (prog = "raster_main" /\ Converted)
       => Len(image_paths) = Max(0, end_page - start_page)

\* C17 as stated: a DPI outside [72, 600] is no error of the command: a
\* warning, every page of the range rendered, and the DPI clamped to the
\* window, with the scale dpi/72 the same on both axes.
C17_DpiClampedToWindow ==
  /\ DpiNeverAnError
  /\ prog = "raster_main"
       => \A f \in imageFiles :
            f.zoom_x = Zoom(Max(72, Min(600, dpi))) /\ f.zoom_y = f.zoom_x

\* C17 amended: a DPI outside [72, 600] is no error of the command: a
\* warning, every page of the range rendered, and the DPI used as given,
\* not clamped: the scale is dpi/72 on both axes also outside the window.
C17_DpiWarnedNotClamped ==
  /\ DpiNeverAnError
  /\ prog = "raster_main"
       => \A f \in imageFiles : f.zoom_x = Zoom(dpi) /\ f.zoom_y = f.zoom_x

\* The command has rendered a document at 601 DPI and ended with status 0.
C17_Witness ==
  /\ prog = "raster_main" /\ pc = "exited" /\ exitCode = 0
  /\ dpi = 601 /\ LogHas("dpi_out_of_window")
  /\ Len(image_paths) = docPages
  /\ \E f \in imageFiles : f.zoom_x = <<601, 72>> /\ f.zoom_y = <<601, 72>>


\* ------------------------------------------------------------------ C18
\* C18: every text an extraction path returns is in NFC form, so that
\* normalizing it again changes nothing: the value returned by each backend
\* (pypdf, pdfminer, OCR), the text extract_page_text hands to main(), and
\* the value extract_page_text returns to a direct caller, which is the
\* value of the backend that produced it or the empty text.
C18_ReturnedTextIsNFC ==
  /\ \A i \in 1..Len(returns) : NFC(returns[i].value) = returns[i].value
  /\ pc = "save" => NFC(text) = text
  /\ (pc = "returned" /\ prog = "extract_page_text" /\ raised = NoExc)
       => /\ NFC(retval) = retval
          /\ retval = <<>> \/ \E i \in 1..Len(returns) : returns[i].value = retval

\* The fallback has returned a composed character recognized by OCR after a
\* blank text layer.
C18_Witness ==
  /\ pc = "returned" /\ prog = "extract_page_text" /\ raised = NoExc
  /\ retval = <<"eacute">>
  /\ Len(returns) = 2 /\ returns[1].value = <<>> /\ returns[2].by = "ocr"


\* ------------------------------------------------------------------ C19
\* Both calls have ended: the first, with the default engine, found a blank
\* text layer and returned; both OCR dependencies are there.
BlankLayerBothCalls ==
  /\ first.done /\ first.engine = "pypdf" /\ first.raised = NoExc
  /\ first.returns # <<>> /\ first.returns[1].value = <<>>
  /\ BothOcrDeps
  /\ pc = "returned" /\ ~Interrupted

\* C19 as stated: on a page with no text layer, both OCR dependencies
\* present, extract_page_text with the default engine returns the same text
\* as with engine "ocr", and that text is not empty.
C19_DefaultEqualsOcrNonEmpty ==
  BlankLayerBothCalls => (raised = NoExc /\ retval = first.retval /\ retval # <<>>)

\* C19 amended: when the OCR extraction completes in both calls, both
\* return the same text, the normalized OCR text, which is empty when OCR
\* recognizes nothing; when OCR fails, the default engine returns the empty
\* text and engine "ocr" raises the error.
C19_DefaultAgreesWithOcr ==
  BlankLayerBothCalls =>
    /\ (raised = NoExc /\ Len(first.returns) = 2)
         => (retval = first.retval /\ retval = Finalize(pageImage))
    /\ Len(first.returns) = 1 => first.retval = <<>>
    /\ first.retval # <<>> => (Len(first.returns) = 2 /\ ~IsBlank(pageImage))
    /\ raised # NoExc => (retval = <<>> /\ raised \in OpenErrors \cup ProcessErrors)

\* Both calls have returned the composed character OCR recognized.
C19_Witness ==
  /\ BlankLayerBothCalls /\ raised = NoExc
  /\ Len(first.returns) = 2 /\ first.returns[2].by = "ocr"
  /\ retval = <<"eacute">> /\ first.retval = retval
  /\ pageImage = <<"e", "acute">>


\* ------------------------------------------------------------------ C20
\* pdf_to_image.py --create-pdf has ended with status 0.
RasterDone ==
  target = "" /\ prog = "raster_main" /\ pc = "exited" /\ exitCode = 0 /\ create_pdf
\* pdf_page_text.py, default engine, page 1, has ended on document d with no
\* exception (neither a read error, a write error nor an interrupt).
ExtractedPageOne(d) ==
  /\ target = d /\ prog = "main" /\ pc = "exited" /\ raised = NoExc
  /\ engine = "pypdf" /\ page_number = 1
\* The assembled PDF: one page per image of the rasterization, images only.
AssembledFromImages ==
  /\ RasterDone
       => /\ pdfOut.exists
          /\ Len(pdfOut.pages) = Len(image_paths)
          /\ \A i \in 1..Len(pdfOut.pages) : pdfOut.pages[i] = [src |-> i, mode |-> "RGB"]
  /\ target = "assembled"
       => (imageOnly /\ pdfOut.exists /\ docPages = Len(pdfOut.pages))
\* The command on page 1 of the original, when the page has text: status 0
\* and the text of the page in the output file.
OriginalGivesItsText ==
  (ExtractedPageOne("original") /\ returns # <<>> /\ returns[1].value # <<>>)
    => /\ exitCode = 0
       /\ Len(returns) = 1
       /\ outFile.content = returns[1].value
       /\ outFile.content # <<>>

ExtractionSucceeded ==
  prog = "main" /\ pc = "exited" /\ exitCode = 0 /\ calls # <<>>
\* The value extract_page_text returned: the last backend's value, or the
\* empty text after an OCR failure the fallback swallowed.
ExtractionResult ==
  IF LogHas("ocr_failed") \/ returns = <<>> THEN <<>>
  ELSE returns[Len(returns)].value

\* C21: on every successful run of the extraction command the output file
\* exists, has been written once, and holds exactly the text the extraction
\* returned, nothing added or removed; for the empty text the file is empty
\* and the status still 0.
C21_FileHoldsExtractedText ==
  ExtractionSucceeded =>
    /\ outFile.exists
    /\ outFile.writes = 1
    /\ outFile.content = text
    /\ outFile.content = ExtractionResult

\* A page without text: the command has replaced an older output file by an
\* empty one and ended with status 0.
C21_Witness ==
  /\ ExtractionSucceeded
  /\ returns = <<Returned("pypdf", <<>>)>>
  /\ outFile = [exists |-> TRUE, content |-> <<>>, writes |-> 1]
  /\ pdfOut = OldPdf


\* ------------------------------------------------------------------ C22
\* How many entries of the log carry message m.
RECURSIVE CountLog(_, _)
CountLog(m, n) ==
  IF n = 0 THEN 0 ELSE CountLog(m, n - 1) + (IF log[n].msg = m THEN 1 ELSE 0)
\* An extraction invocation: the command, or a direct call of
\* extract_page_text.
Extracting == prog \in {"main", "extract_page_text"}

\* C22: nothing is retried within one extraction invocation: each backend
\* is called at most once, at most two in all, a text-layer backend first
\* and OCR after it; a failure ends the invocation at once, or is degraded
\* once by the fallback, and no backend is called after it.
C22_NoRetry ==
  Extracting =>
    /\ Len(calls) <= 2
    /\ \A i, j \in 1..Len(calls) : calls[i] = calls[j] => i = j
    /\ Len(calls) = 2 => (calls[1] \in {"pypdf", "pdfminer"} /\ calls[2] = "ocr")
    /\ Len(returns) <= Len(calls)
    /\ raised # NoExc => pc \in {"exited", "returned"}
    /\ CountLog("ocr_failed", Len(log)) <= 1
    /\ CountLog("extract_failed", Len(log)) <= 1
    /\ CountLog("ocr_failed_inner", Len(log)) <= 1
    /\ CountLog("trying_ocr", Len(log)) <= 1
    /\ LogHas("ocr_failed")
         => (Len(calls) = 2 /\ pc \in {"ept_return", "save", "returned", "exited"})

\* The fallback's OCR attempt has failed after a blank text-layer result:
\* degraded once, the command has ended with an empty file.
C22_Witness ==
  /\ prog = "main" /\ pc = "exited" /\ exitCode = 0
  /\ calls = <<"pypdf", "ocr">>
  /\ Len(returns) = 1
  /\ CountLog("ocr_failed", Len(log)) = 1
  /\ CountLog("ocr_failed_inner", Len(log)) = 1


\* ------------------------------------------------------------------ C23
\* The extraction invocation is over.
ExtractionOver == Extracting /\ pc \in {"exited", "returned"}
\* extract_page_text_ocr has returned a value.
OcrReturned == \E i \in 1..Len(returns) : returns[i].by = "ocr"
\* extract_page_text_ocr has rejected the page number: raised to the caller
\* when the engine is ocr, swallowed by the fallback otherwise (a ValueError
\* is re-raised without the inner error message).
OcrRejectedPage ==
  \/ (raised = OutOfRange(page_number, total_pages) /\ calls = <<"ocr">>)
  \/ (LogHas("ocr_failed") /\ ~LogHas("ocr_failed_inner"))

SecondConversionReturned ==
  /\ prog = "convert_pdf_to_images" /\ first.done
  /\ pc = "returned" /\ raised = NoExc
\* What one call returns for these arguments on this document.
OneCallPaths ==
  [i \in 1..Max(0, end_page - start_page) |->
     [page |-> start_page + i, ext |-> image_format, mode |-> "RGB"]]

\* C24: convert_pdf_to_images called a second time with the same document,
\* range, format and DPI returns the list one call returns, whatever the
\* first call left behind (files, a list, an open document); when the first
\* call returned too, the two lists are equal and the image files are the
\* same, each page rendered with the same zoom on both axes, hence with the
\* same pixel dimensions.
C24_ConversionRepeatable ==
  SecondConversionReturned =>
    /\ image_paths = OneCallPaths
    /\ start_page = (IF page_range = <<>> THEN 0 ELSE Max(0, page_range[1] - 1))
    /\ end_page = (IF page_range = <<>> THEN docPages ELSE Min(docPages, page_range[2]))
    /\ \A f \in imageFiles :
         f.ext = image_format /\ f.zoom_x = Zoom(dpi) /\ f.zoom_y = Zoom(dpi)
    /\ first.raised = NoExc
         => (image_paths = first.retval /\ imageFiles = first.files)
    /\ first.files \subseteq imageFiles

\* Both calls have returned the two pages of the document, rendered at the
\* same resolution.
C24_Witness ==
  /\ SecondConversionReturned /\ first.raised = NoExc
  /\ Len(image_paths) = 2 /\ first.retval = image_paths
  /\ Cardinality(imageFiles) = 2 /\ first.files = imageFiles
  /\ dpi = 601


\* ------------------------------------------------------------------ C25
\* The user interrupted the command while the OCR attempt of the fallback
\* was running (the text-layer backend had returned a blank text).
InterruptedInFallbackOcr ==
  prog = "main" /\ ocrFrom = "fallback" /\ interruptedAt \in OcrLocations

\* C25: an interrupt that arrives while the OCR attempt of the fallback is
\* running is not turned into an empty text: the command ends with status
\* 130, reports the interruption, logs no OCR failure, returns nothing from
\* extract_page_text, and leaves the output file as it was.
C25_InterruptInFallbackNotSwallowed ==
  InterruptedInFallbackOcr =>
    /\ pc = "exited" /\ exitCode = 130
    /\ raised = KeyboardInterrupt
    /\ LogHas("interrupted") /\ ~LogHas("ocr_failed")
    /\ ~OcrReturned /\ Len(returns) = 1 /\ IsBlank(returns[1].value)
    /\ calls = <<engine, "ocr">>
    /\ outFile \in {NoFile, OldFile}

\* The interrupt arrived while Tesseract was reading the rendered page; an
\* earlier output file is still there, unchanged.
C25_Witness ==
  /\ InterruptedInFallbackOcr /\ interruptedAt = "ocr_recognize"
  /\ engine = "pdfminer" /\ exitCode = 130 /\ outFile = OldFile


\* ------------------------------------------------------------------ C26
\* The extraction command has parsed its arguments and was not interrupted.
CommandParsed == prog = "main" /\ LogHas("start") /\ interruptedAt = ""
\* The pdfminer engine is selected and pdfminer.six is not installed.
EngineMissing == engine = "pdfminer" /\ ~PDFMINER_AVAILABLE
\* Nothing has looked at the input path: no validation message, no backend
\* called, no document opened, no exception raised.
PathNotExamined ==
  /\ opens = 0 /\ openDocs = 0 /\ calls = <<>> /\ raised = NoExc
  /\ ~LogHas("pdf_not_found") /\ ~LogHas("not_a_file") /\ ~LogHas("suffix_not_pdf")

\* C26: the extraction command given a page number below 1 ends with status
\* 1 at the engine check or at the page check, whatever the engine and
\* whatever the input path names, before the path is validated or a
\* document is opened; given the pdfminer engine without pdfminer.six it
\* ends with status 1 at the engine check, before the page number or the
\* path is looked at.
C26_EarlyRejections ==
  /\ (CommandParsed /\ page_number < 1) =>
       /\ pc \in {"check_engine", "check_page", "exited"}
       /\ PathNotExamined
       /\ pc = "exited" =>
            /\ exitCode = 1
            /\ LogHas("page_below_one") = ~EngineMissing
            /\ outFile.writes = 0
  /\ (CommandParsed /\ EngineMissing) =>
       /\ pc \in {"check_engine", "exited"}
       /\ PathNotExamined
       /\ ~LogHas("page_below_one") /\ ~LogHas("engine")
       /\ pc = "exited" =>
            /\ exitCode = 1
            /\ LogHas("pdfminer_engine_missing")
            /\ outFile.writes = 0

\* Page 0 of a path that does not exist, with the ocr engine and no OCR
\* library installed: the page number is what the command rejects.
C26_Witness ==
  /\ CommandParsed /\ page_number = 0 /\ engine = "ocr"
  /\ pathState = "missing" /\ ~PYMUPDF_AVAILABLE /\ ~PYTESSERACT_AVAILABLE
  /\ pc = "exited" /\ exitCode = 1 /\ LogHas("page_below_one")


\* ------------------------------------------------------------------ C27
\* The output file as the command found it (the extraction never touches
\* the assembled PDF, which Init ties to the output file).
FileAsFound == IF pdfOut = NoPdf THEN NoFile ELSE OldFile
\* The extraction command ended with an error status that is not a failure
\* to write the output file.
FailedBeforeWriting ==
  prog = "main" /\ pc = "exited" /\ exitCode # 0 /\ ~WriteFailed

\* C27: when the extraction command ends with a non-zero status for any
\* reason but a write failure (usage, missing engine, page number, path
\* validation, missing library, page out of range, extraction error,
\* interruption), the output file is absent or holds what it held before;
\* the file is written once, at the end of a run in which
\* extract_page_text returned the text, and while the command is still
\* running the file is untouched.
C27_NoOutputOnError ==
  /\ FailedBeforeWriting => (outFile = FileAsFound /\ ~LogHas("output_file"))
  /\ (prog = "main" /\ pc # "exited") => outFile = FileAsFound
  /\ (prog = "main" /\ pc = "save") =>
       (returns # <<>> /\ raised = NoExc /\ text = ExtractionResult)
  /\ (prog = "main" /\ outFile # FileAsFound) =>
       /\ pc = "exited" /\ outFile.writes = 1
       /\ returns # <<>> /\ calls # <<>>
       /\ exitCode = 0 \/ WriteFailed

\* The document was opened and the requested page lies beyond its end: the
\* command ends with status 1 and the earlier output file is kept.
C27_Witness ==
  /\ FailedBeforeWriting /\ exitCode = 1
  /\ raised = OutOfRange(page_number, total_pages) /\ opens > 0
  /\ outFile = OldFile

====
